---- MODULE Spec2Model ----
(***************************************************************************)
(* SimpleITK utilities: fft_based_translation_initialization               *)
(* (src/SimpleITK/utilities/fft.py).                                       *)
(*                                                                         *)
(* One invocation of the function is a pipeline of toolkit calls.  Every   *)
(* call is one action.  Image and transform objects live on heaps          *)
(* (sequences of objects); the Python names of the function are            *)
(* references (positions in a heap), so that rebinding a name and changing *)
(* an object are different things.                                         *)
(*                                                                         *)
(* Numbers.  Physical coordinates of grid nodes, spacings and origins are  *)
(* integers.  Continuous indices, physical points computed from them and   *)
(* translations are kept doubled (suffix 2), so that halves are exact.     *)
(* A pixel value is the rational pixels[x] / denom of its image, so that   *)
(* interpolation and smoothing weights are exact.                          *)
(***************************************************************************)
EXTENDS Integers, Sequences, FiniteSets, TLC

\* ------------------------------------------------------------------ bounds
\* largest extent of an image along axis 0 (axis 1 goes up to MaxExtent - 1)
MaxExtent == 3

\* pixel values of the features in the test scenario
FixedValue == 10
MovingValue == 8

\* ------------------------------------------------------- tuples of numbers
Axes(v) == 1..Len(v)

VecAdd(a, b) == [i \in Axes(a) |-> a[i] + b[i]]
VecSub(a, b) == [i \in Axes(a) |-> a[i] - b[i]]
VecScale(k, a) == [i \in Axes(a) |-> k * a[i]]
Zeros(d) == [i \in 1..d |-> 0]
Ones(d) == [i \in 1..d |-> 1]

Abs(n) == IF n < 0 THEN -n ELSE n
Max2(a, b) == IF a >= b THEN a ELSE b
Min2(a, b) == IF a <= b THEN a ELSE b

RECURSIVE SetSum(_, _)
\* the sum of f[x] over the elements x of S
SetSum(f, S) ==
    IF S = {} THEN 0
    ELSE LET x == CHOOSE y \in S : TRUE IN f[x] + SetSum(f, S \ {x})

SetMin(S) == CHOOSE m \in S : \A n \in S : m <= n
SetMax(S) == CHOOSE m \in S : \A n \in S : m >= n

\* the product of the entries of an integer tuple of length 2 or 3
Prod(v) == IF Len(v) = 2 THEN v[1] * v[2] ELSE v[1] * v[2] * v[3]

\* -------------------------------------------------------------- the grid
\* all pixel indices of an image of the given size (2-D or 3-D)
Indices(sz) ==
    IF Len(sz) = 2
    THEN {<<x, y>> : x \in 0..(sz[1] - 1), y \in 0..(sz[2] - 1)}
    ELSE {<<x, y, z>> : x \in 0..(sz[1] - 1), y \in 0..(sz[2] - 1), z \in 0..(sz[3] - 1)}

\* all offsets with entries in -r[i]..r[i]
Offsets(r) ==
    IF Len(r) = 2
    THEN {<<x, y>> : x \in (-r[1])..r[1], y \in (-r[2])..r[2]}
    ELSE {<<x, y, z>> : x \in (-r[1])..r[1], y \in (-r[2])..r[2], z \in (-r[3])..r[3]}

InGrid(p, sz) == \A i \in Axes(sz) : p[i] >= 0 /\ p[i] < sz[i]

\* the nearest index inside the grid
Clamp(p, sz) == [i \in Axes(sz) |-> Max2(0, Min2(sz[i] - 1, p[i]))]

\* position of a pixel in raster order (axis 0 runs fastest)
Raster(p, sz) ==
    IF Len(sz) = 2 THEN p[1] + sz[1] * p[2]
    ELSE p[1] + sz[1] * (p[2] + sz[2] * p[3])

\* Image: the attributes of a sitk.Image.  direction is the diagonal of the
\* direction cosine matrix (entries 1 or -1).
MakeImage(sz, sp, org, dir, ptype, den, pix) ==
    [size |-> sz, spacing |-> sp, origin |-> org, direction |-> dir,
     pixelType |-> ptype, denom |-> den, pixels |-> pix]

\* the point without the spacing of the grid: origin + direction * index
TransformIndexUnscaled2(img, cidx2) ==
    [i \in Axes(cidx2) |-> 2 * img.origin[i] + img.direction[i] * cidx2[i]]

\* Image.TransformContinuousIndexToPhysicalPoint, on doubled numbers:
\* point = origin + direction * spacing * index
TransformContinuousIndexToPhysicalPoint2(img, cidx2) ==
    [i \in Axes(cidx2) |->
        2 * img.origin[i] + img.direction[i] * img.spacing[i] * cidx2[i]]

\* physical point of the grid node with integer index p
NodePoint(img, p) ==
    [i \in Axes(p) |-> img.origin[i] + img.direction[i] * img.spacing[i] * p[i]]

\* ------------------------------------------------------------- transforms
\* Transform: kind is the SimpleITK class, matrix the rows of its linear
\* part, translation2 twice its translation (the centre is the origin).
MakeTransform(k, m, t2) == [kind |-> k, matrix |-> m, translation2 |-> t2]

Identity(d) == [i \in 1..d |-> [j \in 1..d |-> IF i = j THEN 1 ELSE 0]]

MatVec(m, v) ==
    [i \in Axes(v) |-> SetSum([j \in Axes(v) |-> m[i][j] * v[j]], Axes(v))]

\* Transform.TransformPoint on an integer point (the translation is integral)
TransformPoint(tx, p) ==
    LET mp == MatVec(tx.matrix, p)
    IN  [i \in Axes(p) |-> mp[i] + tx.translation2[i] \div 2]

\* --------------------------------------------------- toolkit image filters
\* ResampleImageFilter with SetReferenceImage(ref), linear interpolation and
\* default pixel value 0: the output has ref's grid and img's pixel type;
\* the output pixel at a node of ref is img interpolated at the transformed
\* physical point of that node.
InterpolationNodes(c2, n) ==
    \* nodes and weights (in halves) of linear interpolation along one axis at
    \* doubled continuous index c2, neighbours clamped to 0..n-1
    IF c2 % 2 = 0
    THEN {<<Max2(0, Min2(n - 1, c2 \div 2)), 2>>}
    ELSE {<<Max2(0, Min2(n - 1, (c2 - 1) \div 2)), 1>>,
          <<Max2(0, Min2(n - 1, (c2 + 1) \div 2)), 1>>}

Interpolate(img, c2) ==
    \* 2^dim times the linearly interpolated value at doubled index c2
    LET nd(i) == InterpolationNodes(c2[i], img.size[i])
        corners ==
            IF Len(c2) = 2
            THEN {<<a, b>> : a \in nd(1), b \in nd(2)}
            ELSE {<<a, b, c>> : a \in nd(1), b \in nd(2), c \in nd(3)}
        term == [k \in corners |->
                    Prod([i \in Axes(c2) |-> k[i][2]])
                    * img.pixels[[i \in Axes(c2) |-> k[i][1]]]]
    IN  SetSum(term, corners)

Resample(ref, tx, img) ==
    LET d == Len(ref.size)
        \* doubled continuous index in img of the physical point q
        cidx2(q) == [i \in 1..d |->
                        (2 * (q[i] - img.origin[i]) * img.direction[i])
                            \div img.spacing[i]]
        inside(c2) == \A i \in 1..d : c2[i] >= -1 /\ c2[i] < 2 * img.size[i] - 1
        value(x) ==
            LET c2 == cidx2(TransformPoint(tx, NodePoint(ref, x)))
            IN  IF inside(c2)
                THEN Interpolate(img, c2) \div Prod([i \in 1..d |-> 2])
                ELSE 0
    IN  MakeImage(ref.size, ref.spacing, ref.origin, ref.direction,
                  img.pixelType, img.denom,
                  [x \in Indices(ref.size) |-> value(x)])

\* radius in pixels of the smoothing kernel of width sigma on an axis
KernelRadius(sigma, sp) == IF sigma > sp THEN sigma \div sp ELSE 1

\* SmoothingRecursiveGaussian(img, sigma) followed by Cast to sitkFloat32:
\* a symmetric kernel (weights falling off linearly over the radius) on each
\* axis, the image continued by its border pixels.
SmoothingRecursiveGaussian(img, sigma) ==
    LET d == Len(img.size)
        r == [i \in 1..d |-> KernelRadius(sigma, img.spacing[i])]
        offs == Offsets(r)
        w == [j \in offs |-> Prod([i \in 1..d |-> r[i] + 1 - Abs(j[i])])]
        total == Prod([i \in 1..d |-> (r[i] + 1) * (r[i] + 1)])
        value(x) ==
            SetSum([j \in offs |-> w[j] * img.pixels[Clamp(VecAdd(x, j), img.size)]],
                   offs)
    IN  MakeImage(img.size, img.spacing, img.origin, img.direction,
                  "sitkFloat32", img.denom * total,
                  [x \in Indices(img.size) |-> value(x)])

\* the mask image `img != value` cast to sitkFloat32
NotEqualMask(img, value) ==
    MakeImage(img.size, img.spacing, img.origin, img.direction,
              "sitkFloat32", 1,
              [x \in Indices(img.size) |->
                  IF img.pixels[x] # value * img.denom THEN 1 ELSE 0])

\* an all-ones mask (no pixel ignored)
FullMask(img) ==
    MakeImage(img.size, img.spacing, img.origin, img.direction,
              "sitkFloat32", 1, [x \in Indices(img.size) |-> 1])

\* FFTNormalizedCorrelation / MaskedFFTNormalizedCorrelation: the correlation
\* surface has size f.size + m.size - 1 on f's grid; its pixel at index i is
\* the correlation of f and m for the shift s = i - (m.size - 1), i.e. the
\* sum of f[x + s] * m[x] over the unmasked pixels x of m whose partner x + s
\* is an unmasked pixel of f.  Shifts whose number of overlapping pixels is
\* below frac percent of the largest overlap score 0.
Correlation(f, m, fmask, mmask, frac) ==
    LET d == Len(f.size)
        sz == [i \in 1..d |-> f.size[i] + m.size[i] - 1]
        shift(i) == [a \in 1..d |-> i[a] - (m.size[a] - 1)]
        pairs(i) == {x \in Indices(m.size) :
                        /\ InGrid(VecAdd(x, shift(i)), f.size)
                        /\ mmask.pixels[x] = 1
                        /\ fmask.pixels[VecAdd(x, shift(i))] = 1}
        largest == SetMax({Cardinality(pairs(i)) : i \in Indices(sz)})
        value(i) ==
            LET ps == pairs(i)
            IN  IF frac > 0 /\ 100 * Cardinality(ps) < frac * largest
                THEN 0
                ELSE SetSum([x \in ps |->
                                f.pixels[VecAdd(x, shift(i))] * m.pixels[x]], ps)
    IN  MakeImage(sz, f.spacing, f.origin, f.direction, "sitkFloat32",
                  f.denom * m.denom, [i \in Indices(sz) |-> value(i)])

\* p and q are neighbours: they touch (fullyConnected) or share a face
Adjacent(p, q, fullyConnected) ==
    /\ q # p
    /\ \A i \in Axes(p) : Abs(q[i] - p[i]) <= 1
    /\ fullyConnected \/ Cardinality({i \in Axes(p) : q[i] # p[i]}) = 1

RECURSIVE Grow(_, _, _, _)
\* the pixels of S that `from` reaches through neighbours of equal value
Grow(from, S, v, fullyConnected) ==
    LET more == {q \in S \ from :
                    \E p \in from : v[p] = v[q] /\ Adjacent(p, q, fullyConnected)}
    IN  IF more = {} THEN from ELSE Grow(from \cup more, S, v, fullyConnected)

\* RegionalMaxima(img, fullyConnected=True): the pixels of the flat zones
\* that have no higher neighbour.  A surface that is flat altogether is one
\* zone or none, as the filter's flatIsMaxima flag says.
RegionalMaxima(img, flatIsMaxima) ==
    LET all == Indices(img.size)
        v == img.pixels
        lower == {p \in all : \E q \in all : Adjacent(p, q, TRUE) /\ v[q] > v[p]}
        \* the flat zones that touch a higher pixel
        spoilt == Grow(lower, all, v, TRUE)
        flat == \A p, q \in all : v[p] = v[q]
    IN  IF flat THEN (IF flatIsMaxima THEN all ELSE {})
        ELSE all \ spoilt

\* ConnectedComponent(mask): the connected sets of mask pixels (pixels
\* sharing a face), numbered 1, 2, ... in raster order of their first pixel.
ConnectedComponent(mask, sz) ==
    LET one == [p \in mask |-> 1]
        comps == {Grow({p}, mask, one, FALSE) : p \in mask}
        first(c) == SetMin({Raster(p, sz) : p \in c})
        rank(c) == Cardinality({e \in comps : first(e) <= first(c)})
    IN  [l \in 1..Cardinality(comps) |-> CHOOSE c \in comps : rank(c) = l]

\* LabelStatisticsImageFilter.Execute(img, cc): per label the mean of img
\* over the label's pixels (as a fraction num/den of pixel units) and the
\* bounding box [min0, max0, min1, max1, ...].
LabelStatistics(img, cc) ==
    [l \in DOMAIN cc |->
        [sum |-> SetSum([p \in cc[l] |-> img.pixels[p]], cc[l]),
         count |-> Cardinality(cc[l]),
         bb |-> [k \in 1..(2 * Len(img.size)) |->
                    IF k % 2 = 1
                    THEN SetMin({p[(k + 1) \div 2] : p \in cc[l]})
                    ELSE SetMax({p[k \div 2] : p \in cc[l]})]]]

\* ------------------------------------------------------------------ state
VARIABLES
    images,             \* heap of image objects; 1 and 2 are the caller's
    transforms,         \* heap of transform objects; 1 is the caller's, if any
    inputs,             \* the caller's objects as they were when the call began
    pc,                 \* the statement the call is at
    fixed,              \* the name `fixed`: a reference into images
    moving,             \* the name `moving`
    initial_transform,  \* [class, ref]: Python class of the caller's transform
                        \* object ("None" if absent) and its object
    required_fraction,  \* required_fraction_of_overlapping_pixels, in percent
    masked_pixel_value, \* <<>> for None, <<v>> for the value v
    sigma,
    fixed_mask,         \* references into images of the masks handed to the
    moving_mask,        \* masked correlation, 0 if there is none
    xcorr,              \* reference into images, 0 before the correlation
    stats,              \* the label statistics: label -> [sum, count, bb]
    labels,             \* the labels sorted by mean
    peak,               \* [bb, idx2, pt2, label] of the selected peak
    translation2,       \* twice the raw translation
    result,             \* [class, ref] of the returned transform
    error               \* "" or the exception that ended the call

\* a second call of fft_based_translation_initialization in another thread
VARIABLES
    suspended,          \* the local names of the call that is not running now
                        \* and the objects only it refers to; <<>> if there is
                        \* one call only
    caller_objects      \* how many objects at the front of the heaps are the
                        \* callers': [images, transforms]

\* a call of a function decorated with slice_by_slice
VARIABLES
    sbs_images,         \* heap of image objects; 1 is the caller's
    sbs_input,          \* the caller's image as it was when the call began
    sbs_image,          \* the name `image`: a reference into sbs_images
    sbs_func,           \* the decorated function and the extra arguments:
                        \* [kind, args, slice_call]
    sbs_calls,          \* the invocations of func so far, in order: [ref,
                        \* image, args, high_idx, returned, returned_ref]
    sbs_high_idx,       \* position of the for loop in its index combinations
    sbs_slice,          \* reference of the last extracted or returned slice
    sbs_pc,
    sbs_result          \* reference of the returned image, 0 if none

\* a call of overlay_bounding_boxes
VARIABLES
    obb_args,           \* the arguments of the call: [image, bounding_boxes,
                        \* bounding_box_format, normalized, colors,
                        \* half_line_width]
    obb_images,         \* heap of image objects; 1 is the caller's image
    overlay_image,      \* reference into obb_images, 0 while unbound
    standard_bounding_boxes,
    colors,             \* the name `colors`: the argument, then the triplets
    obb_next,           \* position of the for loop in zip(boxes, colors)
    out_of_bounds,
    obb_pc,
    obb_error,          \* "" or the exception that ended the call
    obb_result          \* <<>> or the returned tuple [image, out_of_bounds]

\* a call of resize
VARIABLES
    rsz_args,           \* the arguments of the call: [image, new_size,
                        \* isotropic, fill, anti_aliasing_sigma, fill_value,
                        \* use_nearest_extrapolator]
    new_spacing,        \* the local names of resize, <<>> while unbound
    new_size,
    new_origin,
    anti_aliasing_sigma,
    rsz_smoothing,      \* the smoothing filters run on the image, in order
    rsz_pc,
    rsz_error,          \* "" or the exception that ended the call
    rsz_result          \* <<>> or the returned image

\* a call of make_isotropic
VARIABLES
    iso_args,           \* the arguments of the call: [image, spacing, standardize_axes]
    iso_images,         \* heap of image objects; 1 is the caller's image
    iso_spacing,        \* the name `spacing`
    iso_new_size,       \* the local names new_size, new_origin, new_direction
    iso_new_origin,
    iso_new_direction,
    iso_pc,
    iso_result          \* reference into iso_images, 0 before the return

\* a call of from_sitk and the computation of the dask array it returns
VARIABLES
    dsk_args,           \* the arguments of the call: [file, chunks]
    img_shape,
    chunks,             \* the name `chunks`, then the block sizes of z on each axis
    is_multi_component,
    dsk_blocks,         \* the blocks of z: [location, shape], <<>> before da.zeros
    dsk_readers,        \* the ImageFileReader objects: [index, size]
    dsk_computed,       \* for each block <<>> or the array func returned
    dsk_pc,
    dsk_error           \* "" or the exception that ended the call

\* a round trip sitk2qpixmap, qpixmap2sitk
VARIABLES
    qt_input,           \* the SimpleITK image given to sitk2qpixmap
    qt_image,           \* the name `image` of sitk2qimage, then of qimage2sitk
    qt_pixmap,          \* <<>> or the QPixmap
    qt_arr,             \* the name `arr` of qimage2sitk
    qt_pc,
    qt_error,           \* "" or the exception that ended the call
    qt_result           \* <<>> or the SimpleITK image qpixmap2sitk returned

\* with-blocks on Logger objects
VARIABLES
    global_logger,      \* the global ITK logger: 0 is the toolkit's own, l > 0 a Logger
    old_logger,         \* for each Logger its attribute _old_logger, -1 while it has none
    with_stack,         \* the with-blocks entered and not left, the innermost last: [logger, before]
    log_raised,         \* "" or the exception on its way out of the blocks
    last_op             \* <<>> or the last __enter__ or __exit__: [op, logger, before, error]

fftVars == <<images, transforms, inputs, pc, fixed, moving, initial_transform,
             required_fraction, masked_pixel_value, sigma, fixed_mask,
             moving_mask, xcorr, stats, labels, peak, translation2, result,
             error>>

\* the variables of the other utilities, which a call of
\* fft_based_translation_initialization leaves alone
sbsVars == <<sbs_images, sbs_input, sbs_image, sbs_func, sbs_calls,
             sbs_high_idx, sbs_slice, sbs_pc, sbs_result>>

threadVars == <<suspended, caller_objects>>

obbVars == <<obb_args, obb_images, overlay_image, standard_bounding_boxes,
             colors, obb_next, out_of_bounds, obb_pc, obb_error, obb_result>>

rszVars == <<rsz_args, new_spacing, new_size, new_origin, anti_aliasing_sigma,
             rsz_smoothing, rsz_pc, rsz_error, rsz_result>>

isoVars == <<iso_args, iso_images, iso_spacing, iso_new_size, iso_new_origin,
             iso_new_direction, iso_pc, iso_result>>

dskVars == <<dsk_args, img_shape, chunks, is_multi_component, dsk_blocks,
             dsk_readers, dsk_computed, dsk_pc, dsk_error>>

qtVars == <<qt_input, qt_image, qt_pixmap, qt_arr, qt_pc, qt_error,
            qt_result>>

logVars == <<global_logger, old_logger, with_stack, log_raised, last_op>>

besidesFft == <<threadVars, sbsVars, obbVars, rszVars, isoVars, dskVars,
                qtVars, logVars>>
besidesSbs == <<fftVars, threadVars, obbVars, rszVars, isoVars, dskVars,
                qtVars, logVars>>
besidesObb == <<fftVars, threadVars, sbsVars, rszVars, isoVars, dskVars,
                qtVars, logVars>>
besidesRsz == <<fftVars, threadVars, sbsVars, obbVars, isoVars, dskVars,
                qtVars, logVars>>

besidesIso == <<fftVars, threadVars, sbsVars, obbVars, rszVars, dskVars,
                qtVars, logVars>>

besidesDsk == <<fftVars, threadVars, sbsVars, obbVars, rszVars, isoVars,
                qtVars, logVars>>

besidesQt == <<fftVars, threadVars, sbsVars, obbVars, rszVars, isoVars,
               dskVars, logVars>>

besidesLog == <<fftVars, threadVars, sbsVars, obbVars, rszVars, isoVars,
                dskVars, qtVars>>

vars == <<fftVars, threadVars, sbsVars, obbVars, rszVars, isoVars, dskVars,
          qtVars, logVars>>

\* no call of the utility is under way
FftIdle ==
    /\ images = <<>>
    /\ transforms = <<>>
    /\ inputs = <<>>
    /\ pc = "idle"
    /\ fixed = 0
    /\ moving = 0
    /\ initial_transform = <<>>
    /\ required_fraction = 0
    /\ masked_pixel_value = <<>>
    /\ sigma = 0
    /\ fixed_mask = 0
    /\ moving_mask = 0
    /\ xcorr = 0
    /\ stats = <<>>
    /\ labels = <<>>
    /\ peak = <<>>
    /\ translation2 = <<>>
    /\ result = <<>>
    /\ error = ""
    /\ suspended = <<>>
    /\ caller_objects = <<>>

ObbIdle ==
    /\ obb_args = <<>>
    /\ obb_images = <<>>
    /\ overlay_image = 0
    /\ standard_bounding_boxes = <<>>
    /\ colors = <<>>
    /\ obb_next = 0
    /\ out_of_bounds = FALSE
    /\ obb_pc = "idle"
    /\ obb_error = ""
    /\ obb_result = <<>>

RszIdle ==
    /\ rsz_args = <<>>
    /\ new_spacing = <<>>
    /\ new_size = <<>>
    /\ new_origin = <<>>
    /\ anti_aliasing_sigma = <<>>
    /\ rsz_smoothing = <<>>
    /\ rsz_pc = "idle"
    /\ rsz_error = ""
    /\ rsz_result = <<>>

IsoIdle ==
    /\ iso_args = <<>>
    /\ iso_images = <<>>
    /\ iso_spacing = <<>>
    /\ iso_new_size = <<>>
    /\ iso_new_origin = <<>>
    /\ iso_new_direction = <<>>
    /\ iso_pc = "idle"
    /\ iso_result = 0

DskIdle ==
    /\ dsk_args = <<>>
    /\ img_shape = <<>>
    /\ chunks = <<>>
    /\ is_multi_component = FALSE
    /\ dsk_blocks = <<>>
    /\ dsk_readers = <<>>
    /\ dsk_computed = <<>>
    /\ dsk_pc = "idle"
    /\ dsk_error = ""

QtIdle ==
    /\ qt_input = <<>>
    /\ qt_image = <<>>
    /\ qt_pixmap = <<>>
    /\ qt_arr = <<>>
    /\ qt_pc = "idle"
    /\ qt_error = ""
    /\ qt_result = <<>>

LogIdle ==
    /\ global_logger = 0
    /\ old_logger = <<>>
    /\ with_stack = <<>>
    /\ log_raised = ""
    /\ last_op = <<>>

SbsIdle ==
    /\ sbs_images = <<>>
    /\ sbs_input = <<>>
    /\ sbs_image = 0
    /\ sbs_func = <<>>
    /\ sbs_calls = <<>>
    /\ sbs_high_idx = 0
    /\ sbs_slice = 0
    /\ sbs_pc = "idle"
    /\ sbs_result = 0

NoPeak == [bb |-> <<>>, idx2 |-> <<>>, pt2 |-> <<>>, label |-> 0]
NoResult == [class |-> "None", ref |-> 0]

\* ----------------------------------------------------------------- inputs
\* image sizes: axis 0 from 2 to MaxExtent, axis 1 from 1 to MaxExtent - 1;
\* in 3-D a third axis of extent 1
LargestSize(d) == IF d = 2 THEN <<MaxExtent, MaxExtent - 1>>
                  ELSE <<MaxExtent, MaxExtent - 1, 1>>
Sizes(d) ==
    IF d = 2
    THEN {<<a, b>> : a \in 2..MaxExtent, b \in 1..(MaxExtent - 1)}
    ELSE {LargestSize(3)}
\* a line long enough to hold two features that stay apart after smoothing
LongSize == <<MaxExtent + 2, 1>>

\* grids: [spacing, origin, direction]
Grid(sp, org, dir) == [spacing |-> sp, origin |-> org, direction |-> dir]
UnitGrid(d) == Grid(Ones(d), Zeros(d), Ones(d))
SkewGrids == {Grid(<<1, 2>>, <<3, -2>>, <<1, 1>>),
              Grid(<<2, 1>>, <<0, 0>>, <<-1, 1>>)}

\* grids that differ from g in spacing, in origin or in direction
OtherGrids(g) ==
    LET d == Len(g.spacing)
    IN  {Grid([i \in 1..d |-> IF i = 1 THEN 3 - g.spacing[1] ELSE g.spacing[i]],
              g.origin, g.direction),
         Grid(g.spacing, [i \in 1..d |-> g.origin[i] + g.spacing[i]], g.direction),
         Grid(g.spacing, g.origin,
              [i \in 1..d |-> IF i = 1 THEN -g.direction[1] ELSE g.direction[i]])}

\* pixel contents: one bright pixel, two bright pixels at the two ends of
\* axis 0, or a constant image
Corners(sz) == {p \in Indices(sz) : \A i \in Axes(sz) : p[i] \in {0, sz[i] - 1}}
FeatureAt(sz, p, v) == [x \in Indices(sz) |-> IF x = p THEN v ELSE 0]
OneFeature(sz, v) == {FeatureAt(sz, p, v) : p \in Indices(sz)}
CornerFeature(sz, v) == {FeatureAt(sz, p, v) : p \in Corners(sz)}
TwoFeatures(sz, v, w) ==
    {[x \in Indices(sz) |-> IF x = p THEN v
                            ELSE IF x = [p EXCEPT ![1] = sz[1] - 1] THEN w ELSE 0] :
        p \in {q \in Indices(sz) : q[1] = 0}}
Constant(sz, v) == {[x \in Indices(sz) |-> v]}

ImageOn(g, sz, ptype, pix) ==
    MakeImage(sz, g.spacing, g.origin, g.direction, ptype, 1, pix)

\* the caller's transform objects: Python class and toolkit transform
Rot90 == <<<<0, -1>>, <<1, 0>>>>
InitialTransforms(d) ==
    IF d = 2
    THEN {[class |-> "Euler2DTransform",
           tx |-> MakeTransform("Euler2DTransform", Rot90, <<2, 0>>)],
          [class |-> "AffineTransform",
           tx |-> MakeTransform("AffineTransform", Identity(2), <<-2, 2>>)],
          [class |-> "TranslationTransform",
           tx |-> MakeTransform("TranslationTransform", Identity(2), <<2, 0>>)],
          [class |-> "Transform",
           tx |-> MakeTransform("AffineTransform", Identity(2), <<2, 0>>)]}
    ELSE {[class |-> "AffineTransform",
           tx |-> MakeTransform("AffineTransform", Identity(3), <<2, 0, 0>>)]}
NoTransform == [class |-> "None", tx |-> <<>>]

Call(f, m, t, frac, mpv) ==
    [fixed |-> f, moving |-> m, transform |-> t, fraction |-> frac, masked |-> mpv]

\* fixed and moving pixel contents: a feature anywhere in the fixed image
\* against a feature in a corner of the moving image; any fixed image against
\* an exact copy of itself and against a constant image
FeaturePairs(fsz, msz) ==
    OneFeature(fsz, FixedValue) \X CornerFeature(msz, MovingValue)
ContentPairs(sz) ==
    FeaturePairs(sz, sz)
        \cup UNION {{<<fp, fp>>, <<fp, CHOOSE c \in Constant(sz, MovingValue) : TRUE>>} :
                       fp \in OneFeature(sz, FixedValue) \cup Constant(sz, 0)}

GridSizes ==
    {<<UnitGrid(Len(sz)), sz>> : sz \in Sizes(2) \cup Sizes(3)}
        \cup {<<g, LargestSize(2)>> : g \in SkewGrids}
UnitGrids == {<<UnitGrid(d), LargestSize(d)>> : d \in {2, 3}}

\* images on one grid and of one size, default options
SameGridCalls ==
    UNION {{Call(ImageOn(gs[1], gs[2], "sitkInt8", c[1]),
                 ImageOn(gs[1], gs[2], "sitkInt8", c[2]), NoTransform, 0, <<>>) :
               c \in ContentPairs(gs[2])} : gs \in GridSizes}

\* two features in the fixed image, of equal or of different brightness
TwoPeakCalls ==
    {Call(ImageOn(UnitGrid(2), LongSize, "sitkInt8", c[1]),
          ImageOn(UnitGrid(2), LongSize, "sitkInt8", c[2]), NoTransform, 0, <<>>) :
        c \in (TwoFeatures(LongSize, FixedValue, FixedValue)
                 \cup TwoFeatures(LongSize, FixedValue, MovingValue)
                 \cup TwoFeatures(LongSize, MovingValue, FixedValue))
              \X OneFeature(LongSize, MovingValue)}

\* images on one grid, the moving image one pixel shorter along axis 0
OtherSizeCalls ==
    UNION {{Call(ImageOn(gs[1], gs[2], "sitkInt8", c[1]),
                 ImageOn(gs[1], [gs[2] EXCEPT ![1] = @ - 1], "sitkInt8", c[2]),
                 NoTransform, 0, <<>>) :
               c \in FeaturePairs(gs[2], [gs[2] EXCEPT ![1] = @ - 1])} :
           gs \in {g \in UnitGrids : Len(g[2]) = 2}}

\* the moving image on a grid that differs from that of the fixed image
OtherGridCalls ==
    UNION {UNION {{Call(ImageOn(gs[1], gs[2], "sitkUInt8", c[1]),
                        ImageOn(mg, gs[2], "sitkUInt8", c[2]), NoTransform, 0, <<>>) :
                      c \in FeaturePairs(gs[2], gs[2])} :
                  mg \in OtherGrids(gs[1])} : gs \in UnitGrids}

\* an initial transform is given
TransformCalls ==
    UNION {UNION {{Call(ImageOn(gs[1], gs[2], "sitkUInt8", c[1]),
                        ImageOn(gs[1], gs[2], "sitkUInt8", c[2]), t, 0, <<>>) :
                      c \in FeaturePairs(gs[2], gs[2])} :
                  t \in InitialTransforms(Len(gs[2]))} : gs \in UnitGrids}

\* a masked pixel value or a required fraction of overlapping pixels is given
OptionCalls ==
    UNION {UNION {{Call(ImageOn(gs[1], gs[2], "sitkUInt8", c[1]),
                        ImageOn(gs[1], gs[2], "sitkUInt8", c[2]),
                        NoTransform, o[1], o[2]) :
                      c \in FeaturePairs(gs[2], gs[2])} :
                  o \in {<<0, <<0>>>>, <<0, <<FixedValue>>>>, <<50, <<>>>>}} :
           gs \in {g \in UnitGrids : Len(g[2]) = 2}}

Calls == SameGridCalls \cup TwoPeakCalls \cup OtherSizeCalls \cup OtherGridCalls
            \cup TransformCalls \cup OptionCalls

Init ==
    \E c \in Calls :
        /\ images = <<c.fixed, c.moving>>
        /\ transforms = IF c.transform.class = "None" THEN <<>>
                        ELSE <<c.transform.tx>>
        /\ inputs = c
        /\ pc = "reconcile"
        /\ fixed = 1
        /\ moving = 2
        /\ initial_transform =
                [class |-> c.transform.class,
                 ref |-> IF c.transform.class = "None" THEN 0 ELSE 1]
        /\ required_fraction = c.fraction
        /\ masked_pixel_value = c.masked
        /\ sigma = 0
        /\ fixed_mask = 0
        /\ moving_mask = 0
        /\ xcorr = 0
        /\ stats = <<>>
        /\ labels = <<>>
        /\ peak = NoPeak
        /\ translation2 = <<>>
        /\ result = NoResult
        /\ error = ""
        /\ suspended = <<>>
        /\ caller_objects = [images |-> 2, transforms |-> Len(transforms)]
        /\ SbsIdle
        /\ ObbIdle
        /\ RszIdle
        /\ IsoIdle
        /\ DskIdle
        /\ QtIdle
        /\ LogIdle

\* --------------------------------------------------------------- the heap
\* a filter that writes its output over its input
ExecuteInPlace(heap, src, out) == [heap |-> [heap EXCEPT ![src] = out], ref |-> src]

\* A filter's Execute returns a new image object and leaves its input alone:
\* the heap with the output appended, and the reference to it.  `src` is the
\* reference of the filter's input.
Execute(heap, src, out) == [heap |-> Append(heap, out), ref |-> Len(heap) + 1]

\* -------------------------------------------------- lines 52-63: the grid
\* the grid check without the comparison of the origins
NeedsResampleNoOrigin ==
    \/ initial_transform.class # "None"
    \/ images[moving].spacing # images[fixed].spacing
    \/ images[moving].direction # images[fixed].direction

NeedsResample ==
    \/ initial_transform.class # "None"
    \/ images[moving].spacing # images[fixed].spacing
    \/ images[moving].direction # images[fixed].direction
    \/ images[moving].origin # images[fixed].origin

\* the resampler's transform: initial_transform if given, else the identity
ResampleTransform ==
    IF initial_transform.class # "None"
    THEN transforms[initial_transform.ref]
    ELSE MakeTransform("IdentityTransform", Identity(Len(images[fixed].size)),
                       Zeros(Len(images[fixed].size)))

\* the moving image as its own reference: the resampling changes no grid
ReferenceImageMoving == images[moving]

\* resampler.SetReferenceImage(fixed)
ReferenceImage == images[fixed]

Reconcile ==
    /\ pc = "reconcile"
    /\ UNCHANGED <<fixed_mask, moving_mask, besidesFft>>
    /\ IF NeedsResample
       THEN LET out == Execute(images, moving,
                               Resample(ReferenceImage, ResampleTransform,
                                        images[moving]))
            IN  /\ images' = out.heap
                /\ moving' = out.ref
       ELSE UNCHANGED <<images, moving>>
    /\ pc' = "smooth_fixed"
    /\ UNCHANGED <<transforms, inputs, fixed, initial_transform, required_fraction,
                   masked_pixel_value, sigma, xcorr, stats, labels, peak,
                   translation2, result, error>>

\* ------------------------------------------------ lines 65-69: smoothing
SmoothFixed ==
    /\ pc = "smooth_fixed"
    /\ UNCHANGED <<fixed_mask, moving_mask, besidesFft>>
    /\ sigma' = images[fixed].spacing[1]
    /\ LET out == Execute(images, fixed,
                          SmoothingRecursiveGaussian(images[fixed], sigma'))
       IN  /\ images' = out.heap
           /\ fixed' = out.ref
    /\ pc' = "smooth_moving"
    /\ UNCHANGED <<transforms, inputs, moving, initial_transform, required_fraction,
                   masked_pixel_value, xcorr, stats, labels, peak, translation2,
                   result, error>>

SmoothMoving ==
    /\ pc = "smooth_moving"
    /\ UNCHANGED <<fixed_mask, moving_mask, besidesFft>>
    /\ LET out == Execute(images, moving,
                          SmoothingRecursiveGaussian(images[moving], sigma))
       IN  /\ images' = out.heap
           /\ moving' = out.ref
    /\ pc' = "correlate"
    /\ UNCHANGED <<transforms, inputs, fixed, initial_transform, required_fraction,
                   masked_pixel_value, sigma, xcorr, stats, labels, peak,
                   translation2, result, error>>

\* --------------------------------------------- lines 71-84: correlation
Correlate ==
    /\ pc = "correlate"
    /\ UNCHANGED besidesFft
    /\ IF masked_pixel_value = <<>>
       THEN LET f == images[fixed]
                m == images[moving]
                out == Execute(images, fixed,
                               Correlation(f, m, FullMask(f), FullMask(m),
                                           required_fraction))
            IN  /\ images' = out.heap
                /\ xcorr' = out.ref
                /\ UNCHANGED <<fixed_mask, moving_mask>>
       ELSE \* the masks are taken from what the names fixed and moving are
            \* bound to at lines 81 and 82
            LET f == images[fixed]
                m == images[moving]
                fm == Execute(images, fixed,
                              NotEqualMask(f, masked_pixel_value[1]))
                mm == Execute(fm.heap, moving,
                              NotEqualMask(m, masked_pixel_value[1]))
                out == Execute(mm.heap, fixed,
                               Correlation(f, m, mm.heap[fm.ref], mm.heap[mm.ref],
                                           required_fraction))
            IN  /\ images' = out.heap
                /\ fixed_mask' = fm.ref
                /\ moving_mask' = mm.ref
                /\ xcorr' = out.ref
    /\ pc' = "smooth_xcorr"
    /\ UNCHANGED <<transforms, inputs, fixed, moving, initial_transform,
                   required_fraction, masked_pixel_value, sigma, stats, labels,
                   peak, translation2, result, error>>

\* ------------------------------------------------------------- line 86
SmoothCorrelation ==
    /\ pc = "smooth_xcorr"
    /\ UNCHANGED <<fixed_mask, moving_mask, besidesFft>>
    /\ LET out == Execute(images, xcorr,
                          SmoothingRecursiveGaussian(images[xcorr], sigma))
       IN  /\ images' = out.heap
           /\ xcorr' = out.ref
    /\ pc' = "label"
    /\ UNCHANGED <<transforms, inputs, fixed, moving, initial_transform,
                   required_fraction, masked_pixel_value, sigma, stats, labels,
                   peak, translation2, result, error>>

\* ------------------------------------------ lines 88-91: the peak regions
\* LabelStatisticsImageFilter.GetLabels: the labels in increasing order
GetLabels(st) == [l \in 1..Len(st) |-> l]

\* GetMean(a) <= GetMean(b), the means compared as fractions sum/count
MeanLessEq(st, a, b) == st[a].sum * st[b].count <= st[b].sum * st[a].count

RECURSIVE InsertByMeanUnstable(_, _, _)
\* an insertion that is not stable: l goes before the labels of equal mean
InsertByMeanUnstable(ls, l, st) ==
    IF ls = <<>> THEN <<l>>
    ELSE IF ~MeanLessEq(st, l, ls[Len(ls)]) THEN Append(ls, l)
    ELSE Append(InsertByMeanUnstable(SubSeq(ls, 1, Len(ls) - 1), l, st), ls[Len(ls)])

RECURSIVE InsertByMean(_, _, _)
\* ls is sorted by mean; l goes behind every label whose mean is not larger
InsertByMean(ls, l, st) ==
    IF ls = <<>> THEN <<l>>
    ELSE IF MeanLessEq(st, ls[Len(ls)], l) THEN Append(ls, l)
    ELSE Append(InsertByMean(SubSeq(ls, 1, Len(ls) - 1), l, st), ls[Len(ls)])

RECURSIVE SortedByMean(_, _)
\* sorted(ls, key=mean): increasing mean, labels of equal mean in the order
\* they have in ls (Python's sort is stable)
SortedByMean(ls, st) ==
    IF ls = <<>> THEN <<>>
    ELSE InsertByMean(SortedByMean(SubSeq(ls, 1, Len(ls) - 1), st), ls[Len(ls)], st)

\* RegionalMaxima is called without flatIsMaxima, so what a surface without
\* any strict maximum yields (one region covering it, or no region at all)
\* is decided by the toolkit and not by this function: both outcomes are
\* taken.  Only the regions are listed: the background label never has a
\* larger mean than the region of the global maximum.
LabelMaxima ==
    /\ pc = "label"
    /\ UNCHANGED <<fixed_mask, moving_mask, besidesFft>>
    /\ \E flatIsMaxima \in BOOLEAN :
        LET img == images[xcorr]
            cc == ConnectedComponent(RegionalMaxima(img, flatIsMaxima), img.size)
        IN  /\ stats' = LabelStatistics(img, cc)
            /\ labels' = SortedByMean(GetLabels(stats'), stats')
    /\ pc' = "peak"
    /\ UNCHANGED <<images, transforms, inputs, fixed, moving, initial_transform,
                   required_fraction, masked_pixel_value, sigma, xcorr, peak,
                   translation2, result, error>>

\* ------------------------------------- lines 52-91: a toolkit call fails
\* the failure is noted but the stage is left to run again
ToolkitFailureRetried ==
    /\ pc \in {"smooth_fixed", "smooth_moving", "correlate", "smooth_xcorr",
                "label"}
    /\ error = ""
    /\ error' = "RuntimeError"
    /\ UNCHANGED <<images, transforms, inputs, pc, fixed, moving,
                   initial_transform, required_fraction, masked_pixel_value,
                   sigma, fixed_mask, moving_mask, xcorr, stats, labels, peak,
                   translation2, result, besidesFft>>

\* The resampler, a smoothing, a correlation or a labelling filter raises
\* (the toolkit's exceptions reach Python as RuntimeError).  The function
\* has no try statement: the exception ends the call where it is.
ToolkitFailure ==
    /\ \/ pc = "reconcile" /\ NeedsResample
       \/ pc \in {"smooth_fixed", "smooth_moving", "correlate", "smooth_xcorr",
                   "label"}
    /\ error' = "RuntimeError"
    /\ pc' = "error"
    /\ UNCHANGED <<images, transforms, inputs, fixed, moving, initial_transform,
                   required_fraction, masked_pixel_value, sigma, fixed_mask,
                   moving_mask, xcorr, stats, labels, peak, translation2,
                   result, besidesFft>>

\* ----------------------------------------------- lines 93-101: the peak
\* labels[0]: the peak taken from the wrong end of the sorted list
PeakLabelFirst(ls) == ls[1]

\* labels[-1]
PeakLabel(ls) == ls[Len(ls)]

\* the peak index without the half pixel
PeakIndex2NoHalf(bb) == [i \in 1..(Len(bb) \div 2) |-> bb[2 * i - 1] + bb[2 * i]]

\* twice the peak's continuous index: (min + max) / 2 + 0.5 on each axis
PeakIndex2(bb) == [i \in 1..(Len(bb) \div 2) |-> bb[2 * i - 1] + bb[2 * i] + 1]

SelectPeak ==
    /\ pc = "peak"
    /\ UNCHANGED <<fixed_mask, moving_mask, besidesFft>>
    /\ IF labels = <<>>
       THEN \* labels[-1] of an empty list
            /\ error' = "IndexError"
            /\ pc' = "error"
            /\ UNCHANGED peak
       ELSE LET l == PeakLabel(labels)
                bb == stats[l].bb
            IN  /\ peak' = [bb |-> bb, idx2 |-> PeakIndex2(bb),
                            pt2 |-> TransformContinuousIndexToPhysicalPoint2(
                                        images[xcorr], PeakIndex2(bb)),
                            label |-> l]
                /\ pc' = "translation"
                /\ UNCHANGED error
    /\ UNCHANGED <<images, transforms, inputs, fixed, moving, initial_transform,
                   required_fraction, masked_pixel_value, sigma, xcorr, stats,
                   labels, translation2, result>>

\* -------------------------------------- lines 103-107: the translation
\* the centre index by integer division, size // 2
CenterIndex2Floor(sz) == [i \in Axes(sz) |-> 2 * (sz[i] \div 2)]

\* twice the centre's continuous index: size / 2 on each axis
CenterIndex2(sz) == sz

\* peak point - centre point
RawTranslation2Swapped(center_pt2, peak_pt2) == VecSub(peak_pt2, center_pt2)

\* twice (centre point - peak point)
RawTranslation2(center_pt2, peak_pt2) == VecSub(center_pt2, peak_pt2)

Translation ==
    /\ pc = "translation"
    /\ UNCHANGED <<fixed_mask, moving_mask, besidesFft>>
    /\ translation2' =
          RawTranslation2(
              TransformContinuousIndexToPhysicalPoint2(
                  images[xcorr], CenterIndex2(images[xcorr].size)),
              peak.pt2)
    /\ pc' = "compose"
    /\ UNCHANGED <<images, transforms, inputs, fixed, moving, initial_transform,
                   required_fraction, masked_pixel_value, sigma, xcorr, stats,
                   labels, peak, result, error>>

\* ------------------------------------------ lines 108-117: the result
\* the classes of transform objects that have Get/SetTranslation
HasTranslation(class) == class \in {"Euler2DTransform", "AffineTransform"}

\* length of the reference point handed to TransformVector: point=[0, 0]
ReferencePointLength == 2

\* Transform.TransformVector(v, point) of a linear transform: the matrix
\* applied to v
TransformVector(tx, v2) == MatVec(tx.matrix, v2)

\* the offset alone: the initial translation is replaced
ReplacedTranslation2(t0, offset2) == offset2

\* the translation handed to SetTranslation: initial translation + offset
ComposedTranslation2(t0, offset2) == VecAdd(t0, offset2)

\* sitk.Transform(t).Downcast(): a new Python object of the transform's own
\* class that shares t's transform object until one of them is changed
CopyTransform(t) == [class |-> transforms[t.ref].kind, ref |-> t.ref]

\* SetTranslation that writes through to the shared transform object
SetTranslationShared(heap, ref, t2) ==
    [heap |-> [heap EXCEPT ![ref].translation2 = t2], ref |-> ref]

\* SetTranslation on the copy: the shared transform object is copied before
\* it is changed (copy on write)
SetTranslation(heap, ref, t2) ==
    [heap |-> Append(heap, [heap[ref] EXCEPT !.translation2 = t2]),
     ref |-> Len(heap) + 1]

Compose ==
    /\ pc = "compose"
    /\ UNCHANGED <<fixed_mask, moving_mask, besidesFft>>
    /\ initial_transform.class # "None"
    /\ LET tx == transforms[initial_transform.ref]
           tx_out == CopyTransform(initial_transform)
       IN  IF Len(translation2) > ReferencePointLength
           THEN \* TransformVector refuses a point shorter than the dimension
                /\ error' = "RuntimeError"
                /\ pc' = "error"
                /\ UNCHANGED <<transforms, result>>
           ELSE IF ~(HasTranslation(tx_out.class)
                        /\ HasTranslation(initial_transform.class))
           THEN \* no SetTranslation on tx_out or GetTranslation on initial_transform
                /\ error' = "AttributeError"
                /\ pc' = "error"
                /\ UNCHANGED <<transforms, result>>
           ELSE LET out == SetTranslation(
                              transforms, tx_out.ref,
                              ComposedTranslation2(tx.translation2,
                                                   TransformVector(tx, translation2)))
                IN  /\ transforms' = out.heap
                    /\ result' = [class |-> tx_out.class, ref |-> out.ref]
                    /\ pc' = "done"
                    /\ UNCHANGED error
    /\ UNCHANGED <<images, inputs, fixed, moving, initial_transform,
                   required_fraction, masked_pixel_value, sigma, xcorr, stats,
                   labels, peak, translation2>>

\* line 117: sitk.TranslationTransform(dimension, translation)
ReturnTranslation ==
    /\ pc = "compose"
    /\ UNCHANGED <<fixed_mask, moving_mask, besidesFft>>
    /\ initial_transform.class = "None"
    /\ transforms' = Append(transforms,
                            MakeTransform("TranslationTransform",
                                          Identity(Len(images[xcorr].size)),
                                          translation2))
    /\ result' = [class |-> "TranslationTransform", ref |-> Len(transforms) + 1]
    /\ pc' = "done"
    /\ UNCHANGED <<images, inputs, fixed, moving, initial_transform,
                   required_fraction, masked_pixel_value, sigma, xcorr, stats,
                   labels, peak, translation2, error>>

Next ==
    \/ Reconcile
    \/ SmoothFixed
    \/ SmoothMoving
    \/ Correlate
    \/ SmoothCorrelation
    \/ LabelMaxima
    \/ ToolkitFailure
    \/ SelectPeak
    \/ Translation
    \/ Compose
    \/ ReturnTranslation

Spec == Init /\ [][Next]_vars

\* ------------------------------------- two calls in two threads: lines 22-117
\* The function has local names only.  Of two calls one runs at a time, stage
\* by stage; the other is suspended with its local names and with the objects
\* that only those names refer to.  The callers' objects are at the front of
\* the heaps, where both calls find them.
Locals ==
    [inputs |-> inputs, pc |-> pc, fixed |-> fixed, moving |-> moving,
     initial_transform |-> initial_transform,
     required_fraction |-> required_fraction,
     masked_pixel_value |-> masked_pixel_value, sigma |-> sigma,
     fixed_mask |-> fixed_mask, moving_mask |-> moving_mask, xcorr |-> xcorr,
     stats |-> stats, labels |-> labels, peak |-> peak,
     translation2 |-> translation2, result |-> result, error |-> error,
     images_own |-> SubSeq(images, caller_objects.images + 1, Len(images)),
     transforms_own |-> SubSeq(transforms, caller_objects.transforms + 1,
                               Len(transforms))]

\* the local names of call c as the call begins, its arguments being the
\* image objects f and m and the transform object t (0 if none)
StartOf(c, f, m, t) ==
    [inputs |-> c, pc |-> "reconcile", fixed |-> f, moving |-> m,
     initial_transform |-> [class |-> c.transform.class, ref |-> t],
     required_fraction |-> c.fraction, masked_pixel_value |-> c.masked,
     sigma |-> 0, fixed_mask |-> 0, moving_mask |-> 0, xcorr |-> 0,
     stats |-> <<>>, labels |-> <<>>, peak |-> NoPeak, translation2 |-> <<>>,
     result |-> NoResult, error |-> "",
     images_own |-> <<>>, transforms_own |-> <<>>]

TransformObjects(c) == IF c.transform.class = "None" THEN <<>> ELSE <<c.transform.tx>>

\* calls on images of the smallest size: a feature in each image, with each
\* of the initial transforms, and with a masked pixel value
SmallestSize == <<2, 1>>
TwoCallInputs ==
    LET img(ptype, pix) == ImageOn(UnitGrid(2), SmallestSize, ptype, pix)
        f0 == img("sitkUInt8", FeatureAt(SmallestSize, <<0, 0>>, FixedValue))
        m1 == img("sitkUInt8", FeatureAt(SmallestSize, <<1, 0>>, MovingValue))
    IN  {Call(img("sitkUInt8", fp), img("sitkUInt8", mp), NoTransform, 0, <<>>) :
            fp \in OneFeature(SmallestSize, FixedValue),
            mp \in OneFeature(SmallestSize, MovingValue)}
        \cup {Call(f0, m1, t, 0, <<>>) : t \in InitialTransforms(2)}
        \cup {Call(f0, m1, NoTransform, 0, <<0>>)}

InitTwo ==
    \E a \in TwoCallInputs, b \in TwoCallInputs, same_objects \in BOOLEAN :
        /\ same_objects => /\ a.fixed = b.fixed
                           /\ a.moving = b.moving
                           /\ a.transform = b.transform
        /\ images = IF same_objects THEN <<a.fixed, a.moving>>
                    ELSE <<a.fixed, a.moving, b.fixed, b.moving>>
        /\ transforms = IF same_objects THEN TransformObjects(a)
                        ELSE TransformObjects(a) \o TransformObjects(b)
        /\ caller_objects = [images |-> Len(images), transforms |-> Len(transforms)]
        /\ suspended =
              IF same_objects
              THEN StartOf(b, 1, 2, Len(TransformObjects(b)))
              ELSE StartOf(b, 3, 4,
                           IF b.transform.class = "None" THEN 0
                           ELSE Len(transforms))
        /\ inputs = a
        /\ pc = "reconcile"
        /\ fixed = 1
        /\ moving = 2
        /\ initial_transform = [class |-> a.transform.class,
                                ref |-> Len(TransformObjects(a))]
        /\ required_fraction = a.fraction
        /\ masked_pixel_value = a.masked
        /\ sigma = 0
        /\ fixed_mask = 0
        /\ moving_mask = 0
        /\ xcorr = 0
        /\ stats = <<>>
        /\ labels = <<>>
        /\ peak = NoPeak
        /\ translation2 = <<>>
        /\ result = NoResult
        /\ error = ""
        /\ SbsIdle
        /\ ObbIdle
        /\ RszIdle
        /\ IsoIdle
        /\ DskIdle
        /\ QtIdle
        /\ LogIdle

\* the running call is suspended and the call with the local names s goes
\* on; pk is what the name peak is bound to from now on
Resume(s, pk) ==
    /\ suspended' = Locals
    /\ inputs' = s.inputs
    /\ pc' = s.pc
    /\ fixed' = s.fixed
    /\ moving' = s.moving
    /\ initial_transform' = s.initial_transform
    /\ required_fraction' = s.required_fraction
    /\ masked_pixel_value' = s.masked_pixel_value
    /\ sigma' = s.sigma
    /\ fixed_mask' = s.fixed_mask
    /\ moving_mask' = s.moving_mask
    /\ xcorr' = s.xcorr
    /\ stats' = s.stats
    /\ labels' = s.labels
    /\ peak' = pk
    /\ translation2' = s.translation2
    /\ result' = s.result
    /\ error' = s.error
    /\ images' = SubSeq(images, 1, caller_objects.images) \o s.images_own
    /\ transforms' = SubSeq(transforms, 1, caller_objects.transforms)
                        \o s.transforms_own
    /\ UNCHANGED <<caller_objects, sbsVars, obbVars, rszVars, isoVars, dskVars, qtVars, logVars>>

\* the name peak kept at module level: both calls bind and read one name
SwitchKeepingPeak ==
    /\ suspended # <<>>
    /\ suspended.pc \notin {"done", "error"}
    /\ Resume(suspended, peak)

\* the threads are switched between two stages
Switch ==
    /\ suspended # <<>>
    /\ suspended.pc \notin {"done", "error"}
    /\ Resume(suspended, suspended.peak)

\* the toolkit's filters are taken to be reentrant and not to fail
NextTwo ==
    \/ Reconcile
    \/ SmoothFixed
    \/ SmoothMoving
    \/ Correlate
    \/ SmoothCorrelation
    \/ LabelMaxima
    \/ SelectPeak
    \/ Translation
    \/ Compose
    \/ ReturnTranslation
    \/ Switch

SpecTwo == InitTwo /\ [][NextTwo]_vars

\* the call c run by itself from its first to its last line: how it ends,
\* flatIsMaxima being what the toolkit does with a flat surface
Alone(c, flatIsMaxima) ==
    LET d == Len(c.fixed.size)
        given == c.transform.class # "None"
        tx == IF given THEN c.transform.tx
              ELSE MakeTransform("IdentityTransform", Identity(d), Zeros(d))
        m0 == IF \/ given
                 \/ c.moving.spacing # c.fixed.spacing
                 \/ c.moving.direction # c.fixed.direction
                 \/ c.moving.origin # c.fixed.origin
              THEN Resample(c.fixed, tx, c.moving)
              ELSE c.moving
        sg == c.fixed.spacing[1]
        f == SmoothingRecursiveGaussian(c.fixed, sg)
        m == SmoothingRecursiveGaussian(m0, sg)
        x0 == IF c.masked = <<>>
              THEN Correlation(f, m, FullMask(f), FullMask(m), c.fraction)
              ELSE Correlation(f, m, NotEqualMask(f, c.masked[1]),
                               NotEqualMask(m, c.masked[1]), c.fraction)
        x == SmoothingRecursiveGaussian(x0, sg)
        st == LabelStatistics(x, ConnectedComponent(
                                     RegionalMaxima(x, flatIsMaxima), x.size))
        ls == SortedByMean(GetLabels(st), st)
        t2 == RawTranslation2(
                  TransformContinuousIndexToPhysicalPoint2(x, CenterIndex2(x.size)),
                  TransformContinuousIndexToPhysicalPoint2(
                      x, PeakIndex2(st[PeakLabel(ls)].bb)))
        raised(e) == [error |-> e, class |-> "None", translation2 |-> <<>>]
    IN  IF ls = <<>> THEN raised("IndexError")
        ELSE IF ~given
        THEN [error |-> "", class |-> "TranslationTransform", translation2 |-> t2]
        ELSE IF Len(t2) > ReferencePointLength THEN raised("RuntimeError")
        ELSE IF ~(HasTranslation(tx.kind) /\ HasTranslation(c.transform.class))
        THEN raised("AttributeError")
        ELSE [error |-> "", class |-> tx.kind,
              translation2 |-> ComposedTranslation2(tx.translation2,
                                                    TransformVector(tx, t2))]


\* ====================================================== slice_by_slice.py
\* A call of a function decorated with slice_by_slice.  An image is
\* [size, pixels], the pixels a function of the index tuples.
MaxDepth == 3

iter_dim == 2

RECURSIVE Product(_)
\* itertools.product(*[range(s) for s in sizes]) as a list: all index
\* combinations, the last index running fastest
Product(sizes) ==
    IF sizes = <<>> THEN << <<>> >>
    ELSE LET rest == Product(Tail(sizes))
         IN  [k \in 1..(sizes[1] * Len(rest)) |->
                 <<(k - 1) \div Len(rest)>> \o rest[((k - 1) % Len(rest)) + 1]]

\* the index tuples of an image of the given size
IndexTuples(sz) == {Product(sz)[k] : k \in 1..Len(Product(sz))}

\* the sizes of the axes from iter_dim on
HighSizes(img) == SubSeq(img.size, iter_dim + 1, Len(img.size))

\* ExtractImageFilter with size [sx, sy, 0, ...] and index [0, 0] + high:
\* a new image of the first iter_dim axes
Extract(img, high) ==
    LET sz == SubSeq(img.size, 1, iter_dim)
    IN  [size |-> sz, pixels |-> [p \in IndexTuples(sz) |-> img.pixels[p \o high]]]

\* the paste index left at the first index combination
PasteAtFirst(img, high, v) ==
    [img EXCEPT !.pixels =
        [q \in DOMAIN @ |->
            IF \A i \in (iter_dim + 1)..Len(q) : q[i] = 0
            THEN v.pixels[SubSeq(q, 1, iter_dim)] ELSE @[q]]]

\* image[:, :, high] = v: the image with v in place of that slice
Paste(img, high, v) ==
    [img EXCEPT !.pixels =
        [q \in DOMAIN @ |->
            IF SubSeq(q, iter_dim + 1, Len(q)) = high
            THEN v.pixels[SubSeq(q, 1, iter_dim)] ELSE @[q]]]

\* func(img, *args) on the image object ref.  "fill" is the function of the
\* test: it sets its argument to the count of its calls and returns it;
\* "add" returns a new image, its argument plus args[0]; "same" returns its
\* argument as it is.
ApplyFunc(heap, ref, f) ==
    CASE f.kind = "fill" ->
            [heap |-> [heap EXCEPT ![ref].pixels = [p \in DOMAIN @ |-> f.slice_call]],
             ref |-> ref, func |-> [f EXCEPT !.slice_call = @ + 1]]
      [] f.kind = "add" ->
            [heap |-> Append(heap, [heap[ref] EXCEPT !.pixels =
                                        [p \in DOMAIN @ |-> @[p] + f.args[1]]]),
             ref |-> Len(heap) + 1, func |-> f]
      [] OTHER -> [heap |-> heap, ref |-> ref, func |-> f]

\* images of 2, 3 and 4 dimensions, every pixel with a value of its own, and
\* the decorated functions with their extra arguments
SbsSizes ==
    {<<2, 1>>, <<1, 2>>}
        \cup {<<2, 1, z>> : z \in 1..MaxDepth}
        \cup {<<2, 1, z, t>> : z \in 1..(MaxDepth - 1), t \in 1..(MaxDepth - 1)}
SbsImages ==
    {[size |-> sz,
      pixels |-> [p \in IndexTuples(sz) |->
                     base + CHOOSE k \in 1..Len(Product(sz)) : Product(sz)[k] = p]] :
        sz \in SbsSizes, base \in {10, 20}}
SbsFuncs ==
    {[kind |-> "fill", args |-> <<>>, slice_call |-> 0],
     [kind |-> "add", args |-> <<1>>, slice_call |-> 0],
     [kind |-> "add", args |-> <<5>>, slice_call |-> 0],
     [kind |-> "same", args |-> <<>>, slice_call |-> 0]}

InitSlice ==
    \E img \in SbsImages, f \in SbsFuncs :
        /\ sbs_images = <<img>>
        /\ sbs_input = [image |-> img, func |-> f]
        /\ sbs_image = 1
        /\ sbs_func = f
        /\ sbs_calls = <<>>
        /\ sbs_high_idx = 0
        /\ sbs_slice = 0
        /\ sbs_pc = "start"
        /\ sbs_result = 0
        /\ FftIdle
        /\ ObbIdle
        /\ RszIdle
        /\ IsoIdle
        /\ DskIdle
        /\ QtIdle
        /\ LogIdle

\* the image is sliced if it has more than iter_dim axes
WholeBelow(dim) == dim < iter_dim

\* line 42
Whole(dim) == dim <= iter_dim

\* lines 42-45: func on the image itself
CallWhole ==
    /\ sbs_pc = "start"
    /\ Whole(Len(sbs_images[sbs_image].size))
    /\ LET out == ApplyFunc(sbs_images, sbs_image, sbs_func)
       IN  /\ sbs_images' = out.heap
           /\ sbs_func' = out.func
           /\ sbs_image' = out.ref
           /\ sbs_result' = out.ref
           /\ sbs_calls' = Append(sbs_calls,
                                  [ref |-> sbs_image, image |-> sbs_images[sbs_image],
                                   args |-> sbs_func.args, high_idx |-> <<>>,
                                   returned |-> out.heap[out.ref],
                                   returned_ref |-> out.ref])
    /\ sbs_pc' = "done"
    /\ UNCHANGED <<sbs_input, sbs_high_idx, sbs_slice, besidesSbs>>

\* lines 47-56: the extractor and the loop over the index combinations
SetUp ==
    /\ sbs_pc = "start"
    /\ ~Whole(Len(sbs_images[sbs_image].size))
    /\ sbs_high_idx' = 1
    /\ sbs_pc' = "extract"
    /\ UNCHANGED <<sbs_images, sbs_input, sbs_image, sbs_func, sbs_calls,
                   sbs_slice, sbs_result, besidesSbs>>

\* lines 56-62 and extractor.Execute(image) of line 69
ExtractSlice ==
    /\ sbs_pc = "extract"
    /\ sbs_high_idx <= Len(Product(HighSizes(sbs_images[sbs_image])))
    /\ LET img == sbs_images[sbs_image]
           high == Product(HighSizes(img))[sbs_high_idx]
       IN  /\ sbs_images' = Append(sbs_images, Extract(img, high))
           /\ sbs_slice' = Len(sbs_images) + 1
    /\ sbs_pc' = "call"
    /\ UNCHANGED <<sbs_input, sbs_image, sbs_func, sbs_calls, sbs_high_idx,
                   sbs_result, besidesSbs>>

\* line 69: func on the extracted slice
CallFunc ==
    /\ sbs_pc = "call"
    /\ LET out == ApplyFunc(sbs_images, sbs_slice, sbs_func)
           img == sbs_images[sbs_image]
       IN  /\ sbs_images' = out.heap
           /\ sbs_func' = out.func
           /\ sbs_slice' = out.ref
           /\ sbs_calls' = Append(sbs_calls,
                                  [ref |-> sbs_slice, image |-> sbs_images[sbs_slice],
                                   args |-> sbs_func.args,
                                   high_idx |-> Product(HighSizes(img))[sbs_high_idx],
                                   returned |-> out.heap[out.ref],
                                   returned_ref |-> out.ref])
    /\ sbs_pc' = "paste"
    /\ UNCHANGED <<sbs_input, sbs_image, sbs_high_idx, sbs_result, besidesSbs>>

\* lines 68-69: image[paste_idx] = ..., pasted in place
PasteSlice ==
    /\ sbs_pc = "paste"
    /\ LET img == sbs_images[sbs_image]
           high == Product(HighSizes(img))[sbs_high_idx]
       IN  sbs_images' = [sbs_images EXCEPT
                             ![sbs_image] = Paste(img, high, sbs_images[sbs_slice])]
    /\ sbs_high_idx' = sbs_high_idx + 1
    /\ sbs_pc' = "extract"
    /\ UNCHANGED <<sbs_input, sbs_image, sbs_func, sbs_calls, sbs_slice,
                   sbs_result, besidesSbs>>

\* line 71
ReturnImage ==
    /\ sbs_pc = "extract"
    /\ sbs_high_idx > Len(Product(HighSizes(sbs_images[sbs_image])))
    /\ sbs_result' = sbs_image
    /\ sbs_pc' = "done"
    /\ UNCHANGED <<sbs_images, sbs_input, sbs_image, sbs_func, sbs_calls,
                   sbs_high_idx, sbs_slice, besidesSbs>>

NextSlice ==
    \/ CallWhole
    \/ SetUp
    \/ ExtractSlice
    \/ CallFunc
    \/ PasteSlice
    \/ ReturnImage

SpecSlice == InitSlice /\ [][NextSlice]_vars

\* ===================================================== rational numbers
\* Python floats that need not be whole are kept as exact fractions <<n, d>>
\* in lowest terms with d > 0.
RECURSIVE Gcd(_, _)
Gcd(a, b) == IF b = 0 THEN a ELSE Gcd(b, a % b)

Rat(n, d) ==
    LET g == Gcd(Abs(n), Abs(d))
        sgn == IF d < 0 THEN -1 ELSE 1
    IN  <<(sgn * n) \div g, (sgn * d) \div g>>

RAdd(a, b) == Rat(a[1] * b[2] + b[1] * a[2], a[2] * b[2])
RSub(a, b) == Rat(a[1] * b[2] - b[1] * a[2], a[2] * b[2])
RMul(a, b) == Rat(a[1] * b[1], a[2] * b[2])
RDiv(a, b) == Rat(a[1] * b[2], a[2] * b[1])
RLeq(a, b) == a[1] * b[2] <= b[1] * a[2]

\* math.ceil
Ceil(a) == -((-a[1]) \div a[2])

\* int(): towards zero
Trunc(a) == IF a[1] >= 0 THEN a[1] \div a[2] ELSE Ceil(a)

\* ============================================ overlay_bounding_boxes.py
\* A call of overlay_bounding_boxes.  An image is [size, pixelType,
\* channels, pixels], a pixel the tuple of its channel values.

\* lines 59-78: one bounding box brought to [min_x, min_y, max_x, max_y]
ConvertToMinxyMaxxy(fmt, b) ==
    CASE fmt = "MINXY_WH" ->
            <<b[1], b[2], RAdd(b[1], b[3]), RAdd(b[2], b[4])>>
      [] fmt = "CENT_WH" ->
            <<RSub(b[1], RDiv(b[3], <<2, 1>>)), RSub(b[2], RDiv(b[4], <<2, 1>>)),
              RAdd(b[1], RDiv(b[3], <<2, 1>>)), RAdd(b[2], RDiv(b[4], <<2, 1>>))>>
      [] fmt = "CENT_HALFWH" ->
            <<RSub(b[1], b[3]), RSub(b[2], b[4]), RAdd(b[1], b[3]), RAdd(b[2], b[4])>>
      [] OTHER -> b

\* every format is taken: no KeyError
AnyFormat(fmt) == TRUE

\* the keys of convert_to_minxy_maxxy
KnownFormat(fmt) == fmt \in {"MINXY_MAXXY", "MINXY_WH", "CENT_WH", "CENT_HALFWH"}

\* slice(start, stop).indices(n): negative positions count from the end,
\* all positions are cut to 0..n
SliceIndices(start, stop, n) ==
    LET cut(i) == IF i < 0 THEN Max2(i + n, 0) ELSE Min2(i, n)
    IN  <<cut(start), cut(stop)>>

\* image[xs[0]:xs[1], ys[0]:ys[1]] = an image of size sz and of one colour:
\* the assignment raises unless the region is as large as that image
PasteColor(img, xs, ys, sz, color) ==
    LET rx == SliceIndices(xs[1], xs[2], img.size[1])
        ry == SliceIndices(ys[1], ys[2], img.size[2])
    IN  IF rx[2] - rx[1] = sz[1] /\ ry[2] - ry[1] = sz[2]
        THEN [raised |-> FALSE,
              image |-> [img EXCEPT !.pixels =
                            [p \in DOMAIN @ |->
                                IF /\ p[1] >= rx[1] /\ p[1] < rx[2]
                                   /\ p[2] >= ry[1] /\ p[2] < ry[2]
                                THEN color ELSE @[p]]]]
        ELSE [raised |-> TRUE, image |-> img]

\* the assignments without the last: the line at max_y is not drawn
PiecesWithoutLast(b, h) ==
    LET vert == <<1 + 2 * h, b[4] - b[2] + 1 + 2 * h>>
        horiz == <<b[3] - b[1], 1 + 2 * h>>
        tall == <<b[2] - h, b[4] + h + 1>>
    IN  <<[xs |-> <<b[1] - h, b[1] + h + 1>>, ys |-> tall, size |-> vert],
          [xs |-> <<b[3] - h, b[3] + h + 1>>, ys |-> tall, size |-> vert],
          [xs |-> <<b[1], b[3]>>, ys |-> <<b[2] - h, b[2] + h + 1>>, size |-> horiz]>>

\* lines 130-165: the four assignments for one box, in the order of the code
Pieces(b, h) ==
    LET vert == <<1 + 2 * h, b[4] - b[2] + 1 + 2 * h>>
        horiz == <<b[3] - b[1], 1 + 2 * h>>
        tall == <<b[2] - h, b[4] + h + 1>>
    IN  <<[xs |-> <<b[1] - h, b[1] + h + 1>>, ys |-> tall, size |-> vert],
          [xs |-> <<b[3] - h, b[3] + h + 1>>, ys |-> tall, size |-> vert],
          [xs |-> <<b[1], b[3]>>, ys |-> <<b[2] - h, b[2] + h + 1>>, size |-> horiz],
          [xs |-> <<b[1], b[3]>>, ys |-> <<b[4] - h, b[4] + h + 1>>, size |-> horiz]>>

RECURSIVE DrawPieces(_, _, _)
\* lines 149-168: the assignments one after the other up to the first that
\* raises; what was drawn before it stays
DrawPieces(img, pieces, color) ==
    IF pieces = <<>> THEN [raised |-> FALSE, image |-> img]
    ELSE LET r == PasteColor(img, Head(pieces).xs, Head(pieces).ys,
                             Head(pieces).size, color)
         IN  IF r.raised THEN r ELSE DrawPieces(r.image, Tail(pieces), color)

\* ---------------------------------------------------------------- inputs
ObbSize == <<MaxExtent + 2, MaxExtent + 1>>

\* a scalar and an RGB image of 8-bit channels; an image of 16-bit pixels
\* and one of two channels
ObbImage(ptype, n, pixel) ==
    [size |-> ObbSize, pixelType |-> ptype, channels |-> n,
     pixels |-> [p \in Indices(ObbSize) |-> pixel]]
ValidImages == {ObbImage("sitkUInt8", 1, <<0>>),
                ObbImage("sitkVectorUInt8", 3, <<0, 0, 255>>)}
InvalidImages == {ObbImage("sitkUInt16", 1, <<0>>),
                  ObbImage("sitkVectorUInt8", 2, <<0, 0>>)}

\* boxes given as [min_x, min_y, max_x, max_y]: two inside the image that
\* cross, one beyond the last column, one beyond the first column, and one
\* with negative numbers only
WholeBox(a, b, c, d) == <<<<a, 1>>, <<b, 1>>, <<c, 1>>, <<d, 1>>>>
BoxesGiven ==
    {WholeBox(0, 0, 2, 2), WholeBox(1, 1, 3, 2),
     WholeBox(2, 1, ObbSize[1], 2), WholeBox(-2, 0, 2, 2),
     WholeBox(-5, -5, -3, -3)}
BoxLists ==
    {<<>>} \cup {<<a>> : a \in BoxesGiven}
           \cup {<<a, b>> : a \in BoxesGiven, b \in BoxesGiven}
ColorLists == {<<>>, <<0, 255, 0>>, <<255, 20, 147, 255, 215, 0>>}

ObbCall(img, boxes, fmt, norm, cols, h) ==
    [image |-> img, bounding_boxes |-> boxes, bounding_box_format |-> fmt,
     normalized |-> norm, colors |-> cols, half_line_width |-> h]

\* boxes in index units, in every format, and boxes in fractions of the image size
ObbCalls ==
    {ObbCall(img, boxes, "MINXY_MAXXY", FALSE, cols, h) :
        img \in ValidImages, boxes \in BoxLists, cols \in ColorLists, h \in {0, 1}}
    \cup {ObbCall(img, <<WholeBox(1, 1, 2, 2), WholeBox(2, 1, 3, 3)>>, fmt, FALSE,
                  <<>>, 0) :
            img \in ValidImages,
            fmt \in {"MINXY_WH", "CENT_WH", "CENT_HALFWH", "XYXY"}}
    \cup {ObbCall(img, <<<<<<1, 5>>, <<1, 4>>, <<1, 2>>, <<1, 2>>>>>>, fmt, TRUE,
                  <<>>, 0) :
            img \in ValidImages,
            fmt \in {"MINXY_MAXXY", "MINXY_WH", "CENT_WH", "CENT_HALFWH"}}
    \cup {ObbCall(img, <<WholeBox(0, 0, 2, 2)>>, "MINXY_MAXXY", FALSE, <<>>, h) :
            img \in ValidImages \cup InvalidImages, h \in {-1, 0}}

InitOverlay ==
    \E c \in ObbCalls :
        /\ obb_args = c
        /\ obb_images = <<c.image>>
        /\ overlay_image = 0
        /\ standard_bounding_boxes = <<>>
        /\ colors = c.colors
        /\ obb_next = 0
        /\ out_of_bounds = FALSE
        /\ obb_pc = "check"
        /\ obb_error = ""
        /\ obb_result = <<>>
        /\ FftIdle
        /\ SbsIdle
        /\ RszIdle
        /\ IsoIdle
        /\ DskIdle
        /\ QtIdle
        /\ LogIdle

\* --------------------------------------------------------------- actions
\* lines 80-90
CheckImage ==
    /\ obb_pc = "check"
    /\ IF \/ obb_images[1].pixelType \notin {"sitkUInt8", "sitkVectorUInt8"}
          \/ obb_images[1].channels \notin {1, 3}
       THEN obb_error' = "ValueError" /\ obb_pc' = "error"
       ELSE obb_pc' = "overlay" /\ UNCHANGED obb_error
    /\ UNCHANGED <<obb_args, obb_images, overlay_image, standard_bounding_boxes,
                   colors, obb_next, out_of_bounds, obb_result, besidesObb>>

\* lines 91-94: sitk.Image(image) is a copy of the image, sitk.Compose a new
\* image of three equal channels
MakeOverlay ==
    /\ obb_pc = "overlay"
    /\ LET img == obb_images[1]
       IN  obb_images' =
              Append(obb_images,
                     IF img.channels = 3 THEN img
                     ELSE [img EXCEPT !.pixelType = "sitkVectorUInt8",
                                      !.channels = 3,
                                      !.pixels = [p \in DOMAIN @ |->
                                                     <<@[p][1], @[p][1], @[p][1]>>]])
    /\ overlay_image' = Len(obb_images) + 1
    /\ obb_pc' = "line_width"
    /\ UNCHANGED <<obb_args, standard_bounding_boxes, colors, obb_next,
                   out_of_bounds, obb_error, obb_result, besidesObb>>

\* lines 95-98
CheckLineWidth ==
    /\ obb_pc = "line_width"
    /\ IF obb_args.half_line_width < 0
       THEN obb_error' = "ValueError" /\ obb_pc' = "error"
       ELSE obb_pc' = "convert" /\ UNCHANGED obb_error
    /\ UNCHANGED <<obb_args, obb_images, overlay_image, standard_bounding_boxes,
                   colors, obb_next, out_of_bounds, obb_result, besidesObb>>

\* lines 99-122: to [min_x, min_y, max_x, max_y], times the image size if
\* normalized, rounded by int(b + 0.5)
Convert ==
    /\ obb_pc = "convert"
    /\ IF ~KnownFormat(obb_args.bounding_box_format)
       THEN \* KeyError, raised again as ValueError
            /\ obb_error' = "ValueError"
            /\ obb_pc' = "error"
            /\ UNCHANGED standard_bounding_boxes
       ELSE /\ standard_bounding_boxes' =
                  [i \in 1..Len(obb_args.bounding_boxes) |->
                      LET b == ConvertToMinxyMaxxy(obb_args.bounding_box_format,
                                                   obb_args.bounding_boxes[i])
                          scale(k) == IF obb_args.normalized
                                      THEN <<obb_images[1].size[2 - (k % 2)], 1>>
                                      ELSE <<1, 1>>
                      IN  [k \in 1..4 |-> Trunc(RAdd(RMul(b[k], scale(k)), <<1, 2>>))]]
            /\ obb_pc' = "colors"
            /\ UNCHANGED obb_error
    /\ UNCHANGED <<obb_args, obb_images, overlay_image, colors, obb_next,
                   out_of_bounds, obb_result, besidesObb>>

\* lines 123-128
SplitColors ==
    /\ obb_pc = "colors"
    /\ colors' = IF colors = <<>>
                 THEN [i \in 1..Len(standard_bounding_boxes) |-> <<255, 0, 0>>]
                 ELSE [i \in 1..((Len(colors) + 2) \div 3) |->
                          SubSeq(colors, 3 * i - 2, Min2(3 * i, Len(colors)))]
    /\ obb_next' = 1
    /\ obb_pc' = "draw"
    /\ UNCHANGED <<obb_args, obb_images, overlay_image, standard_bounding_boxes,
                   out_of_bounds, obb_error, obb_result, besidesObb>>

\* the pairs of zip(standard_bounding_boxes, colors)
Pairs == Min2(Len(standard_bounding_boxes), Len(colors))

\* lines 129-168: one turn of the loop
DrawBox ==
    /\ obb_pc = "draw"
    /\ obb_next <= Pairs
    /\ LET b == standard_bounding_boxes[obb_next]
           color == colors[obb_next]
           h == obb_args.half_line_width
       IN  IF Len(color) < 3
           THEN \* color[2] of a short triplet
                /\ obb_error' = "IndexError"
                /\ obb_pc' = "error"
                /\ UNCHANGED <<obb_images, out_of_bounds, obb_next>>
           ELSE IF b[3] - b[1] <= 0 \/ b[4] - b[2] + 1 + 2 * h <= 0
           THEN \* sitk.Image of a size that is not positive
                /\ obb_error' = "RuntimeError"
                /\ obb_pc' = "error"
                /\ UNCHANGED <<obb_images, out_of_bounds, obb_next>>
           ELSE LET r == DrawPieces(obb_images[overlay_image], Pieces(b, h),
                                    SubSeq(color, 1, 3))
                IN  /\ obb_images' = [obb_images EXCEPT ![overlay_image] = r.image]
                    /\ out_of_bounds' = (out_of_bounds \/ r.raised)
                    /\ obb_next' = obb_next + 1
                    /\ UNCHANGED <<obb_error, obb_pc>>
    /\ UNCHANGED <<obb_args, overlay_image, standard_bounding_boxes, colors,
                   obb_result, besidesObb>>

\* line 169
ReturnOverlay ==
    /\ obb_pc = "draw"
    /\ obb_next > Pairs
    /\ obb_result' = [image |-> overlay_image, out_of_bounds |-> out_of_bounds]
    /\ obb_pc' = "done"
    /\ UNCHANGED <<obb_args, obb_images, overlay_image, standard_bounding_boxes,
                   colors, obb_next, out_of_bounds, obb_error, besidesObb>>

NextOverlay ==
    \/ CheckImage
    \/ MakeOverlay
    \/ CheckLineWidth
    \/ Convert
    \/ SplitColors
    \/ DrawBox
    \/ ReturnOverlay

SpecOverlay == InitOverlay /\ [][NextOverlay]_vars

\* ================================================================ resize.py
\* A call of resize on a 2D image [size, spacing, origin, direction,
\* pixelType], direction being the diagonal of the direction matrix.  Sizes
\* are integers; spacings, origins and sigmas are rationals <<n, d>> whose
\* denominator is a power of two, so each is a double without rounding.

\* ---- the doubles of lines 49-60
\* The new size is the ceiling of a quotient of two doubles (line 58), the
\* divisor being itself a rounded quotient (line 50): the rounding decides an
\* integer.  A double is [m, s, real]: the value m * 2^-s with m an integer of
\* 53 bits, and the real number it stands for before rounding.  m is kept as
\* digits in base 2^14, lowest first.
Digit == 2 ^ 14

RECURSIVE BMulSmall(_, _, _)
\* digits d times k, plus carry c
BMulSmall(d, k, c) ==
    IF d = <<>> THEN (IF c = 0 THEN <<>>
                      ELSE <<c % Digit>> \o BMulSmall(<<>>, k, c \div Digit))
    ELSE LET v == d[1] * k + c
         IN  <<v % Digit>> \o BMulSmall(Tail(d), k, v \div Digit)

\* d times 2^j
BShl(d, j) == [i \in 1..(j \div 14) |-> 0] \o BMulSmall(d, 2 ^ (j % 14), 0)

RECURSIVE BAdd(_, _, _)
BAdd(a, b, c) ==
    IF a = <<>> /\ b = <<>> THEN (IF c = 0 THEN <<>> ELSE <<c>>)
    ELSE LET x == IF a = <<>> THEN 0 ELSE a[1]
             y == IF b = <<>> THEN 0 ELSE b[1]
             v == x + y + c
         IN  <<v % Digit>> \o BAdd(IF a = <<>> THEN a ELSE Tail(a),
                                   IF b = <<>> THEN b ELSE Tail(b),
                                   v \div Digit)

RECURSIVE BCmp(_, _)
\* -1, 0 or 1 as a is below, equal to or above b
BCmp(a, b) ==
    IF a = <<>> /\ b = <<>> THEN 0
    ELSE LET x == IF a = <<>> THEN 0 ELSE a[1]
             y == IF b = <<>> THEN 0 ELSE b[1]
             high == BCmp(IF a = <<>> THEN a ELSE Tail(a),
                          IF b = <<>> THEN b ELSE Tail(b))
         IN  IF high # 0 THEN high
             ELSE IF x < y THEN -1 ELSE IF x > y THEN 1 ELSE 0

RECURSIVE BDivSmall(_, _)
\* quotient and remainder of digits d by n
BDivSmall(d, n) ==
    IF d = <<>> THEN [q |-> <<>>, r |-> 0]
    ELSE LET high == BDivSmall(Tail(d), n)
             v == high.r * Digit + d[1]
         IN  [q |-> IF high.q = <<>> /\ v < n THEN <<>>
                    ELSE <<v \div n>> \o high.q,
              r |-> v % n]

RECURSIVE FloorLog2(_)
\* the exponent of the positive rational a: 2^e <= a < 2^(e+1)
FloorLog2(a) ==
    IF a[1] >= 2 * a[2] THEN FloorLog2(<<a[1], 2 * a[2]>>) + 1
    ELSE IF a[1] < a[2] THEN FloorLog2(<<2 * a[1], a[2]>>) - 1
    ELSE 0

\* line 50, a / n in doubles: the quotient rounded to 53 bits, to nearest,
\* ties to even
FloatDiv(a, n) ==
    LET s == 52 - FloorLog2(<<a[1], a[2] * n>>)
        d == BDivSmall(BShl(<<a[1]>>, s - FloorLog2(<<a[2], 1>>)), n)
        up == \/ 2 * d.r > n
              \/ 2 * d.r = n /\ d.q[1] % 2 = 1
    IN  [m |-> IF up THEN BAdd(d.q, <<1>>, 0) ELSE d.q,
         s |-> s,
         real |-> Rat(a[1], a[2] * n)]

FloatLeq(x, y) == BCmp(BShl(x.m, y.s), BShl(y.m, x.s)) <= 0

RECURSIVE FloatMin(_)
FloatMin(xs) ==
    IF Len(xs) = 1 THEN xs[1]
    ELSE LET rest == FloatMin(Tail(xs))
         IN  IF FloatLeq(xs[1], rest) THEN xs[1] ELSE rest

RECURSIVE FloatMax(_)
\* line 55: max of a list of doubles
FloatMax(xs) ==
    IF Len(xs) = 1 THEN xs[1]
    ELSE LET rest == FloatMax(Tail(xs))
         IN  IF FloatLeq(rest, xs[1]) THEN xs[1] ELSE rest

RECURSIVE CeilFrom(_, _, _)
\* the least integer from k on that the double a / x does not exceed.  The
\* quotient rounds to a double above k only if it lies more than half a
\* step of the doubles above k, 2^(FloorLog2(k) - 53), above k.
CeilFrom(a, x, k) ==
    LET up == 53 - FloorLog2(<<k, 1>>)
        quotient == BShl(<<a[1]>>, x.s - FloorLog2(<<a[2], 1>>) + up)
        limit == BAdd(BShl(BMulSmall(x.m, k, 0), up), x.m, 0)
    IN  IF BCmp(quotient, limit) <= 0 THEN k ELSE CeilFrom(a, x, k + 1)

\* line 58: ceil(a / x) with a / x in doubles
FloatCeilDiv(a, x) == CeilFrom(a, x, 1)

\* ---- inputs
RszSizes == {<<4, 4>>, <<2, 4>>, <<3, 2>>}
RszSpacings == {<<Rat(1, 1), Rat(1, 1)>>, <<Rat(1, 1), Rat(1, 2)>>}
RszFrames == {[origin |-> <<Rat(0, 1), Rat(0, 1)>>, direction |-> <<1, 1>>],
              [origin |-> <<Rat(-1, 1), Rat(1, 2)>>, direction |-> <<1, -1>>]}
RszImages ==
    {[size |-> sz, spacing |-> sp, origin |-> f.origin,
      direction |-> f.direction, pixelType |-> "sitkUInt8"] :
        sz \in RszSizes, sp \in RszSpacings, f \in RszFrames}
NewSizes == {<<4, 4>>, <<2, 2>>, <<2, 4>>, <<3, 5>>, <<8, 4>>, <<47, 47>>,
             <<49, 20>>}
\* None, a scalar, or a sequence
SigmaArguments ==
    {[kind |-> "None"]}
        \cup {[kind |-> "scalar", value |-> v] :
                v \in {Rat(0, 1), Rat(1, 1), Rat(-1, 1)}}
        \cup {[kind |-> "sequence", value |-> v] :
                v \in {<<Rat(1, 1), Rat(0, 1)>>, <<Rat(1, 1)>>}}
ResizeCalls ==
    {[image |-> img, new_size |-> nsz, isotropic |-> iso, fill |-> fl,
      anti_aliasing_sigma |-> sg, fill_value |-> 0,
      use_nearest_extrapolator |-> FALSE] :
        img \in RszImages, nsz \in NewSizes, iso \in BOOLEAN,
        fl \in BOOLEAN, sg \in SigmaArguments}

InitResize ==
    \E c \in ResizeCalls :
        /\ rsz_args = c
        /\ new_spacing = <<>>
        /\ new_size = c.new_size
        /\ new_origin = <<>>
        /\ anti_aliasing_sigma = c.anti_aliasing_sigma
        /\ rsz_smoothing = <<>>
        /\ rsz_pc = "spacing"
        /\ rsz_error = ""
        /\ rsz_result = <<>>
        /\ FftIdle
        /\ SbsIdle
        /\ ObbIdle
        /\ IsoIdle
        /\ DskIdle
        /\ QtIdle
        /\ LogIdle

Dims == 1..Len(rsz_args.image.size)
\* osz * ospc
Extent(i) == RMul(<<rsz_args.image.size[i], 1>>, rsz_args.image.spacing[i])

\* isotropic with the smallest of the spacings
FinestSpacing(each) == FloatMin(each)
\* line 55
CoarsestSpacing(each) == FloatMax(each)

\* lines 49-55
ComputeSpacing ==
    /\ rsz_pc = "spacing"
    /\ LET each == [i \in Dims |-> FloatDiv(Extent(i), new_size[i])]
       IN  new_spacing' = IF rsz_args.isotropic
                          THEN [i \in Dims |-> CoarsestSpacing(each)]
                          ELSE each
    /\ rsz_pc' = "size"
    /\ UNCHANGED <<rsz_args, new_size, new_origin, anti_aliasing_sigma,
                   rsz_smoothing, rsz_error, rsz_result, besidesRsz>>

\* lines 56-60
ComputeSize ==
    /\ rsz_pc = "size"
    /\ new_size' = IF rsz_args.fill THEN new_size
                   ELSE [i \in Dims |-> FloatCeilDiv(Extent(i), new_spacing[i])]
    /\ rsz_pc' = "origin"
    /\ UNCHANGED <<rsz_args, new_spacing, new_origin, anti_aliasing_sigma,
                   rsz_smoothing, rsz_error, rsz_result, besidesRsz>>

\* the centre taken as half the size
CenterIndexWhole(sz) == Rat(sz, 2)
\* 0.5 * (sz - 1)
CenterIndex(sz) == Rat(sz - 1, 2)

\* image.TransformContinuousIndexToPhysicalPoint on axis i
PhysicalPoint(img, i, cidx) ==
    RAdd(img.origin[i], RMul(<<img.direction[i], 1>>, RMul(img.spacing[i], cidx)))

\* lines 62-72, in real numbers
ComputeOrigin ==
    /\ rsz_pc = "origin"
    /\ LET new_origin_cidx ==
               [i \in Dims |->
                   RSub(CenterIndex(rsz_args.image.size[i]),
                        RMul(CenterIndex(new_size[i]),
                             RDiv(new_spacing[i].real, rsz_args.image.spacing[i])))]
       IN  new_origin' = [i \in Dims |-> PhysicalPoint(rsz_args.image, i, new_origin_cidx[i])]
    /\ rsz_pc' = "sigma"
    /\ UNCHANGED <<rsz_args, new_spacing, new_size, anti_aliasing_sigma,
                   rsz_smoothing, rsz_error, rsz_result, besidesRsz>>

Positive(r) == r[1] > 0
Negative(r) == r[1] < 0

\* the sigmas as the docstring has them: computed from the spacings for a
\* sequence as for None
SigmaListComputed ==
    IF anti_aliasing_sigma.kind = "scalar"
    THEN [i \in Dims |-> anti_aliasing_sigma.value]
    ELSE [i \in Dims |->
            LET half == RDiv(RSub(new_spacing[i].real, rsz_args.image.spacing[i]),
                             Rat(2, 1))
            IN  IF Negative(half) THEN Rat(0, 1) ELSE half]
\* lines 76-84: the sigmas of the axes
SigmaList ==
    IF anti_aliasing_sigma.kind = "None"
    THEN [i \in Dims |->
            LET half == RDiv(RSub(new_spacing[i].real, rsz_args.image.spacing[i]),
                             Rat(2, 1))
            IN  IF Negative(half) THEN Rat(0, 1) ELSE half]
    ELSE IF anti_aliasing_sigma.kind = "scalar"
    THEN [i \in Dims |-> anti_aliasing_sigma.value]
    ELSE anti_aliasing_sigma.value

\* lines 76-91
ResolveSigma ==
    /\ rsz_pc = "sigma"
    /\ anti_aliasing_sigma' = SigmaList
    /\ IF \/ \E i \in 1..Len(SigmaList) : Negative(SigmaList[i])
          \/ Len(SigmaList) # Len(rsz_args.image.size)
       THEN rsz_error' = "ValueError" /\ rsz_pc' = "error"
       ELSE rsz_error' = rsz_error /\ rsz_pc' = "smooth"
    /\ UNCHANGED <<rsz_args, new_spacing, new_size, new_origin, rsz_smoothing,
                   rsz_result, besidesRsz>>

RECURSIVE AxisFilters(_, _)
\* lines 96-98: one RecursiveGaussian for each axis from d on with a
\* sigma above zero, d counting from 0
AxisFilters(sigmas, d) ==
    IF d >= Len(sigmas) THEN <<>>
    ELSE (IF Positive(sigmas[d + 1])
          THEN <<[filter |-> "RecursiveGaussian", sigma |-> sigmas[d + 1],
                  direction |-> d]>>
          ELSE <<>>) \o AxisFilters(sigmas, d + 1)

\* lines 93-98
Smooth ==
    /\ rsz_pc = "smooth"
    /\ rsz_smoothing' =
          IF \A i \in Dims : Positive(anti_aliasing_sigma[i])
          THEN <<[filter |-> "SmoothingRecursiveGaussian",
                  sigma |-> anti_aliasing_sigma]>>
          ELSE AxisFilters(anti_aliasing_sigma, 0)
    /\ rsz_pc' = "resample"
    /\ UNCHANGED <<rsz_args, new_spacing, new_size, new_origin,
                   anti_aliasing_sigma, rsz_error, rsz_result, besidesRsz>>

\* lines 100-110: the image sitk.Resample returns
ResampleImage ==
    /\ rsz_pc = "resample"
    /\ rsz_result' = [size |-> new_size,
                      origin |-> new_origin,
                      spacing |-> new_spacing,
                      direction |-> rsz_args.image.direction,
                      pixelType |-> rsz_args.image.pixelType,
                      defaultPixelValue |-> rsz_args.fill_value,
                      useNearestNeighborExtrapolator
                          |-> rsz_args.use_nearest_extrapolator,
                      smoothed |-> rsz_smoothing]
    /\ rsz_pc' = "done"
    /\ UNCHANGED <<rsz_args, new_spacing, new_size, new_origin,
                   anti_aliasing_sigma, rsz_smoothing, rsz_error, besidesRsz>>

NextResize ==
    \/ ComputeSpacing
    \/ ComputeSize
    \/ ComputeOrigin
    \/ ResolveSigma
    \/ Smooth
    \/ ResampleImage

SpecResize == InitResize /\ [][NextResize]_vars

\* ======================================================== make_isotropic.py
\* A call of make_isotropic on a 2D image [size, spacing, origin, direction],
\* direction being the matrix by rows as GetDirection gives it.  Spacings and
\* origins are rationals with small denominators; a quotient of them is
\* within one rounding of its double, which never moves it across a half,
\* so round is taken of the rational.

\* round() and numpy's round: to the nearest integer, a half to the even one
RoundHalfEven(a) ==
    LET low == a[1] \div a[2]
        twice == 2 * (a[1] - low * a[2])
    IN  IF twice < a[2] THEN low
        ELSE IF twice > a[2] THEN low + 1
        ELSE IF low % 2 = 0 THEN low ELSE low + 1

Identity2 == <<1, 0, 0, 1>>

\* image.TransformIndexToPhysicalPoint
IndexToPhysicalPoint(img, idx) ==
    [i \in 1..2 |->
        RAdd(img.origin[i],
             RAdd(RMul(<<img.direction[2 * i - 1] * idx[1], 1>>, img.spacing[1]),
                  RMul(<<img.direction[2 * i] * idx[2], 1>>, img.spacing[2])))]

RMin(a, b) == IF RLeq(a, b) THEN a ELSE b

IsoSizes == {<<2, 3>>, <<5, 3>>, <<4, 4>>}
IsoSpacings == {<<Rat(1, 1), Rat(1, 1)>>, <<Rat(1, 1), Rat(1, 2)>>,
                <<Rat(2, 1), Rat(1, 1)>>, <<Rat(1, 2), Rat(3, 2)>>}
IsoFrames == {[origin |-> <<Rat(0, 1), Rat(0, 1)>>, direction |-> Identity2],
              [origin |-> <<Rat(-1, 1), Rat(1, 2)>>, direction |-> Identity2],
              [origin |-> <<Rat(0, 1), Rat(0, 1)>>, direction |-> <<1, 0, 0, -1>>],
              [origin |-> <<Rat(-1, 1), Rat(1, 2)>>, direction |-> <<0, -1, 1, 0>>]}
\* the argument spacing: None or a number
SpacingArguments == {<<>>, Rat(1, 2), Rat(1, 1), Rat(2, 1)}
IsoCalls ==
    {[image |-> [size |-> sz, spacing |-> sp, origin |-> f.origin,
                 direction |-> f.direction],
      spacing |-> arg, standardize_axes |-> std] :
        sz \in IsoSizes, sp \in IsoSpacings, f \in IsoFrames,
        arg \in SpacingArguments, std \in BOOLEAN}

InitIso ==
    \E c \in IsoCalls :
        /\ iso_args = c
        /\ iso_images = <<c.image>>
        /\ iso_spacing = c.spacing
        /\ iso_new_size = <<>>
        /\ iso_new_origin = <<>>
        /\ iso_new_direction = <<>>
        /\ iso_pc = "check"
        /\ iso_result = 0
        /\ FftIdle
        /\ SbsIdle
        /\ ObbIdle
        /\ RszIdle
        /\ DskIdle
        /\ QtIdle
        /\ LogIdle

\* line 54
AlreadyIsotropic(original_spacing) ==
    \A i \in 1..Len(original_spacing) : original_spacing[i] = original_spacing[1]

\* lines 52-55: an isotropic image is returned as a copy
CheckIsotropic ==
    /\ iso_pc = "check"
    /\ IF AlreadyIsotropic(iso_images[1].spacing)
       THEN /\ iso_images' = Append(iso_images, iso_images[1])
            /\ iso_result' = Len(iso_images) + 1
            /\ iso_pc' = "done"
       ELSE /\ iso_pc' = "grid"
            /\ UNCHANGED <<iso_images, iso_result>>
    /\ UNCHANGED <<iso_args, iso_spacing, iso_new_size, iso_new_origin,
                   iso_new_direction, besidesIso>>

\* lines 57-66
ComputeGrid ==
    /\ iso_pc = "grid"
    /\ LET img == iso_images[1]
           spacing == IF iso_spacing = <<>>
                      THEN RMin(img.spacing[1], img.spacing[2])
                      ELSE iso_spacing
       IN  /\ iso_spacing' = spacing
           /\ iso_new_size' =
                 [i \in 1..2 |->
                     RoundHalfEven(RDiv(RMul(<<img.size[i], 1>>, img.spacing[i]),
                                        spacing))]
           /\ iso_new_direction' = img.direction
           /\ iso_new_origin' = img.origin
    /\ iso_pc' = "axes"
    /\ UNCHANGED <<iso_args, iso_images, iso_result, besidesIso>>

\* lines 75-78: the physical points of the indexes 0 and size on every axis
BoundaryPoints(img) ==
    {IndexToPhysicalPoint(img, <<x, y>>) :
        x \in {0, img.size[1]}, y \in {0, img.size[2]}}
MaxCoord(points, i) ==
    (CHOOSE q \in points : \A r \in points : RLeq(r[i], q[i]))[i]
MinCoord(points, i) ==
    (CHOOSE q \in points : \A r \in points : RLeq(q[i], r[i]))[i]

\* lines 67-82
StandardizeAxes ==
    /\ iso_pc = "axes"
    /\ IF iso_args.standardize_axes /\ iso_new_direction # Identity2
       THEN LET points == BoundaryPoints(iso_images[1])
            IN  /\ iso_new_direction' = Identity2
                /\ iso_new_origin' = [i \in 1..2 |-> MinCoord(points, i)]
                /\ iso_new_size' =
                      [i \in 1..2 |->
                          RoundHalfEven(RDiv(RSub(MaxCoord(points, i),
                                                  MinCoord(points, i)),
                                             iso_spacing))]
       ELSE UNCHANGED <<iso_new_direction, iso_new_origin, iso_new_size>>
    /\ iso_pc' = "resample"
    /\ UNCHANGED <<iso_args, iso_images, iso_spacing, iso_result, besidesIso>>

\* lines 83-93: the image sitk.Resample returns
ResampleIso ==
    /\ iso_pc = "resample"
    /\ iso_images' = Append(iso_images,
                            [size |-> iso_new_size,
                             spacing |-> <<iso_spacing, iso_spacing>>,
                             origin |-> iso_new_origin,
                             direction |-> iso_new_direction])
    /\ iso_result' = Len(iso_images) + 1
    /\ iso_pc' = "done"
    /\ UNCHANGED <<iso_args, iso_spacing, iso_new_size, iso_new_origin,
                   iso_new_direction, besidesIso>>

NextIso ==
    \/ CheckIsotropic
    \/ ComputeGrid
    \/ StandardizeAxes
    \/ ResampleIso

SpecIso == InitIso /\ [][NextIso]_vars

\* ================================================================== dask.py
\* A call of from_sitk on a 2D image file [size, components], and the
\* computation of the array it returns.  An array is [shape, data], data a
\* function of the index tuples; the argument chunks is [kind |-> "None"],
\* [kind |-> "int", value] or [kind |-> "tuple", value].

Reverse(t) == [i \in 1..Len(t) |-> t[Len(t) + 1 - i]]

\* the value the file holds for component c of the pixel at <<x, y>>
FilePixel(x, y, c) == 100 * c + 10 * y + x

\* sitk.GetArrayFromImage of the region of index and size read from file
RegionArray(file, index, size) ==
    LET shape == IF file.components = 1 THEN Reverse(size)
                 ELSE Reverse(size) \o <<file.components>>
    IN  [shape |-> shape,
         data |-> [a \in IndexTuples(shape) |->
                      FilePixel(index[1] + a[2], index[2] + a[1],
                                IF file.components = 1 THEN 0 ELSE a[3])]]

\* dask: the sizes of the blocks of an axis of length n for the chunk c
AxisBlocks(c, n) ==
    IF c = -1 \/ c >= n THEN <<n>>
    ELSE [k \in 1..((n + c - 1) \div c) |->
             IF k * c <= n THEN c ELSE n - (k - 1) * c]

RECURSIVE SumTo(_, _)
SumTo(t, k) == IF k = 0 THEN 0 ELSE t[k] + SumTo(t, k - 1)

\* dask: the blocks of an array whose axes are cut into the given sizes, as
\* block_info[None] has them: "array-location" and "chunk-shape"
BlocksOf(axes) ==
    LET numbers == Product([i \in 1..Len(axes) |-> Len(axes[i])])
    IN  [b \in 1..Len(numbers) |->
            [location |-> [i \in 1..Len(axes) |->
                              <<SumTo(axes[i], numbers[b][i]),
                                SumTo(axes[i], numbers[b][i] + 1)>>],
             shape |-> [i \in 1..Len(axes) |-> axes[i][numbers[b][i] + 1]]]]

DskFiles == {[size |-> sz, components |-> n] :
                sz \in {<<3, 2>>, <<4, 3>>}, n \in {1, 2}}
ChunksGiven ==
    {[kind |-> "None"], [kind |-> "int", value |-> 2]}
        \cup {[kind |-> "tuple", value |-> v] :
                v \in {<<-1, -1>>, <<1, -1>>, <<2, 2>>, <<2, 2, -1>>, <<2, 2, 1>>}}
\* the chunks dask takes for an array of the file: one entry for each
\* axis of the array, or one for each axis of the image
ValidChunks(file, ch) ==
    \/ ch.kind \in {"None", "int"}
    \/ /\ ch.kind = "tuple"
       /\ \/ Len(ch.value) = 2
          \/ Len(ch.value) = 3 /\ file.components # 1

InitDask ==
    \E file \in DskFiles, ch \in ChunksGiven :
        /\ ValidChunks(file, ch)
        /\ dsk_args = [file |-> file, chunks |-> ch]
        /\ img_shape = <<>>
        /\ chunks = ch
        /\ is_multi_component = FALSE
        /\ dsk_blocks = <<>>
        /\ dsk_readers = <<>>
        /\ dsk_computed = <<>>
        /\ dsk_pc = "info"
        /\ dsk_error = ""
        /\ FftIdle
        /\ SbsIdle
        /\ ObbIdle
        /\ RszIdle
        /\ IsoIdle
        /\ QtIdle
        /\ LogIdle

\* lines 39-45
ReadInformation ==
    /\ dsk_pc = "info"
    /\ dsk_readers' = (0 :> [index |-> <<>>, size |-> <<>>])
    /\ img_shape' = Reverse(dsk_args.file.size)
    /\ chunks' = IF chunks.kind = "None"
                 THEN [kind |-> "tuple",
                       value |-> [i \in 1..Len(dsk_args.file.size) |-> -1]]
                 ELSE chunks
    /\ dsk_pc' = "components"
    /\ UNCHANGED <<dsk_args, is_multi_component, dsk_blocks, dsk_computed,
                   dsk_error, besidesDsk>>

\* lines 47-53; len() of an int raises TypeError
AddComponents ==
    /\ dsk_pc = "components"
    /\ is_multi_component' = (dsk_args.file.components # 1)
    /\ IF dsk_args.file.components = 1
       THEN /\ dsk_pc' = "zeros"
            /\ UNCHANGED <<img_shape, chunks, dsk_error>>
       ELSE /\ img_shape' = img_shape \o <<dsk_args.file.components>>
            /\ IF chunks.kind = "int"
               THEN /\ dsk_error' = "TypeError"
                    /\ dsk_pc' = "error"
                    /\ UNCHANGED chunks
               ELSE /\ chunks' = IF Len(chunks.value) < Len(img_shape')
                                 THEN [chunks EXCEPT !.value = @ \o <<-1>>]
                                 ELSE chunks
                    /\ dsk_pc' = "zeros"
                    /\ UNCHANGED dsk_error
    /\ UNCHANGED <<dsk_args, dsk_blocks, dsk_readers, dsk_computed, besidesDsk>>

\* lines 55-57: da.zeros cuts the array into blocks
MakeZeros ==
    /\ dsk_pc = "zeros"
    /\ LET axes == [i \in 1..Len(img_shape) |->
                       AxisBlocks(IF chunks.kind = "int" THEN chunks.value
                                  ELSE chunks.value[i],
                                  img_shape[i])]
       IN  /\ chunks' = axes
           /\ dsk_blocks' = BlocksOf(axes)
    /\ dsk_pc' = "map"
    /\ UNCHANGED <<dsk_args, img_shape, is_multi_component, dsk_readers,
                   dsk_computed, dsk_error, besidesDsk>>

\* lines 75-76: the array is returned, no block of it read yet
MapBlocks ==
    /\ dsk_pc = "map"
    /\ dsk_computed' = [b \in 1..Len(dsk_blocks) |-> <<>>]
    /\ dsk_pc' = "returned"
    /\ UNCHANGED <<dsk_args, img_shape, chunks, is_multi_component, dsk_blocks,
                   dsk_readers, dsk_error, besidesDsk>>

\* the reader made for block b is named b, the one of from_sitk itself 0
Started(b) == b \in DOMAIN dsk_readers

\* lines 60-61: func is entered for a block, on any thread of dask
StartBlock(b) ==
    /\ dsk_pc = "returned"
    /\ ~Started(b)
    /\ dsk_readers' = dsk_readers @@ (b :> [index |-> <<>>, size |-> <<>>])
    /\ UNCHANGED <<dsk_args, img_shape, chunks, is_multi_component, dsk_blocks,
                   dsk_computed, dsk_pc, dsk_error, besidesDsk>>

\* lines 64-65 and 67-68: the axes of the image among those of the block,
\* reversed
ImageAxes(t) ==
    IF is_multi_component THEN Reverse(SubSeq(t, 1, Len(t) - 1)) ELSE Reverse(t)

\* lines 62-72
ReadBlock(b) ==
    /\ dsk_pc = "returned"
    /\ Started(b)
    /\ dsk_computed[b] = <<>>
    /\ LET info == dsk_blocks[b]
           size == ImageAxes(info.shape)
           index == ImageAxes([i \in 1..Len(info.location) |-> info.location[i][1]])
       IN  /\ dsk_readers' = [dsk_readers EXCEPT ![b].index = index,
                                                 ![b].size = size]
           /\ dsk_computed' = [dsk_computed EXCEPT
                                  ![b] = RegionArray(dsk_args.file, index, size)]
    /\ UNCHANGED <<dsk_args, img_shape, chunks, is_multi_component, dsk_blocks,
                   dsk_pc, dsk_error, besidesDsk>>

NextDask ==
    \/ ReadInformation
    \/ AddComponents
    \/ MakeZeros
    \/ MapBlocks
    \/ \E b \in 1..Len(dsk_blocks) : StartBlock(b)
    \/ \E b \in 1..Len(dsk_blocks) : ReadBlock(b)

SpecDask == InitDask /\ [][NextDask]_vars

\* ================================================================ pyside.py
\* The round trip of the test: sitk2qpixmap, then qpixmap2sitk.  A SimpleITK
\* image is [size, pixelType, channels, pixels], a QImage [format, size,
\* pixels], a pixel the tuple of its channel values.  The QPixmap keeps red,
\* green and blue of every pixel in 8 bits each.

\* sitk.RescaleIntensity to [0, 255], then sitk.Cast to sitkUInt8: the
\* values are cut off towards zero; an image of one value becomes 0
RescaleIntensity(img) ==
    LET values == {img.pixels[x][1] : x \in DOMAIN img.pixels}
        low == SetMin(values)
        high == CHOOSE m \in values : \A n \in values : n <= m
    IN  [img EXCEPT
            !.pixelType = "sitkUInt8",
            !.pixels = [x \in DOMAIN img.pixels |->
                           IF high = low THEN <<0>>
                           ELSE <<((img.pixels[x][1] - low) * 255)
                                     \div (high - low)>>]]

\* QImage.isGrayscale of an image of 24 or 32 bits: every pixel is grey
IsGrayscale(qimage) ==
    \/ qimage.format = "Format_Grayscale8"
    \/ \A x \in DOMAIN qimage.pixels :
          /\ qimage.pixels[x][1] = qimage.pixels[x][2]
          /\ qimage.pixels[x][2] = qimage.pixels[x][3]

QtSize == <<2, 1>>
QtImage(ptype, n, values) ==
    [size |-> QtSize, pixelType |-> ptype, channels |-> n,
     pixels |-> [x \in Indices(QtSize) |-> values[x[1] + 1]]]
GreyValues == {<<0>>, <<1>>, <<255>>}
ColorValues == {<<0, 1, 2>>, <<7, 7, 7>>, <<255, 255, 255>>, <<32, 64, 128>>}
QtImages ==
    {QtImage("sitkUInt8", 1, <<a, b>>) : a \in GreyValues, b \in GreyValues}
        \cup {QtImage("sitkVectorUInt8", 3, <<a, b>>) :
                a \in ColorValues, b \in ColorValues}
        \cup {QtImage("sitkUInt16", 1, <<a, b>>) :
                a \in {<<0>>, <<510>>}, b \in {<<255>>, <<1020>>}}
        \cup {QtImage("sitkVectorUInt8", 2, <<<<1, 2>>, <<3, 4>>>>),
              QtImage("sitkVectorUInt16", 3, <<<<1, 2, 3>>, <<4, 5, 6>>>>)}

InitQt ==
    \E img \in QtImages :
        /\ qt_input = img
        /\ qt_image = img
        /\ qt_pixmap = <<>>
        /\ qt_arr = <<>>
        /\ qt_pc = "check"
        /\ qt_error = ""
        /\ qt_result = <<>>
        /\ FftIdle
        /\ SbsIdle
        /\ ObbIdle
        /\ RszIdle
        /\ IsoIdle
        /\ DskIdle
        /\ LogIdle

\* sitk2qimage, lines 36-44
CheckChannels ==
    /\ qt_pc = "check"
    /\ IF \/ qt_image.channels \notin {1, 3}
          \/ qt_image.channels = 3 /\ qt_image.pixelType # "sitkVectorUInt8"
       THEN qt_error' = "ValueError" /\ qt_pc' = "error"
       ELSE qt_error' = qt_error /\ qt_pc' = "rescale"
    /\ UNCHANGED <<qt_input, qt_image, qt_pixmap, qt_arr, qt_result, besidesQt>>

\* sitk2qimage, lines 46-50
Rescale ==
    /\ qt_pc = "rescale"
    /\ qt_image' = IF qt_image.channels = 1 /\ qt_image.pixelType # "sitkUInt8"
                   THEN RescaleIntensity(qt_image)
                   ELSE qt_image
    /\ qt_pc' = "qimage"
    /\ UNCHANGED <<qt_input, qt_pixmap, qt_arr, qt_error, qt_result, besidesQt>>

\* sitk2qimage, lines 51-60: the QImage on the pixels of the image
MakeQImage ==
    /\ qt_pc = "qimage"
    /\ qt_image' = [format |-> IF qt_image.channels = 1 THEN "Format_Grayscale8"
                               ELSE "Format_RGB888",
                    size |-> qt_image.size,
                    pixels |-> qt_image.pixels]
    /\ qt_pc' = "pixmap"
    /\ UNCHANGED <<qt_input, qt_pixmap, qt_arr, qt_error, qt_result, besidesQt>>

\* sitk2qpixmap, line 75: QPixmap.fromImage
MakePixmap ==
    /\ qt_pc = "pixmap"
    /\ qt_pixmap' = [size |-> qt_image.size,
                     pixels |-> [x \in DOMAIN qt_image.pixels |->
                                    LET v == qt_image.pixels[x]
                                    IN  IF Len(v) = 1 THEN <<v[1], v[1], v[1]>>
                                        ELSE v]]
    /\ qt_image' = <<>>
    /\ qt_pc' = "toimage"
    /\ UNCHANGED <<qt_input, qt_arr, qt_error, qt_result, besidesQt>>

\* qpixmap2sitk, line 114: pixmap.toImage
PixmapToImage ==
    /\ qt_pc = "toimage"
    /\ qt_image' = [format |-> "Format_RGB32", size |-> qt_pixmap.size,
                    pixels |-> qt_pixmap.pixels]
    /\ qt_pc' = "convert"
    /\ UNCHANGED <<qt_input, qt_pixmap, qt_arr, qt_error, qt_result, besidesQt>>

\* qimage2sitk, lines 92-98
ConvertToRGB888 ==
    /\ qt_pc = "convert"
    /\ qt_image' = [qt_image EXCEPT !.format = "Format_RGB888"]
    /\ qt_arr' = qt_image.pixels
    /\ qt_pc' = "array"
    /\ UNCHANGED <<qt_input, qt_pixmap, qt_error, qt_result, besidesQt>>

\* qimage2sitk, lines 99-102
ReturnSitk ==
    /\ qt_pc = "array"
    /\ LET grey == IsGrayscale(qt_image)
           arr == IF grey THEN [x \in DOMAIN qt_arr |-> <<qt_arr[x][1]>>]
                  ELSE qt_arr
       IN  /\ qt_arr' = arr
           /\ qt_result' = [size |-> qt_image.size,
                            pixelType |-> IF grey THEN "sitkUInt8"
                                          ELSE "sitkVectorUInt8",
                            channels |-> IF grey THEN 1 ELSE 3,
                            pixels |-> arr]
    /\ qt_pc' = "done"
    /\ UNCHANGED <<qt_input, qt_image, qt_pixmap, qt_error, besidesQt>>

NextQt ==
    \/ CheckChannels
    \/ Rescale
    \/ MakeQImage
    \/ MakePixmap
    \/ PixmapToImage
    \/ ConvertToRGB888
    \/ ReturnSitk

SpecQt == InitQt /\ [][NextQt]_vars

\* ================================================================ Logger.py
\* Properly nested with-blocks on Logger objects.  The loggers are numbers:
\* 0 is the logger of the toolkit, the others are Logger instances.
MaxNesting == 3

Loggers == {1, 2}

InitLogger ==
    \E g \in {0} \cup Loggers :
        /\ global_logger = g
        /\ old_logger = [l \in Loggers |-> -1]
        /\ with_stack = <<>>
        /\ log_raised = ""
        /\ last_op = <<>>
        /\ FftIdle
        /\ SbsIdle
        /\ ObbIdle
        /\ RszIdle
        /\ IsoIdle
        /\ DskIdle
        /\ QtIdle

\* lines 44-46, __enter__ of Logger l: SetAsGlobalITKLogger returns the
\* logger that was the global one
Enter(l) ==
    /\ log_raised = ""
    /\ Len(with_stack) < MaxNesting
    /\ global_logger' = l
    /\ old_logger' = [old_logger EXCEPT ![l] = global_logger]
    /\ with_stack' = Append(with_stack, [logger |-> l, before |-> global_logger])
    /\ last_op' = [op |-> "enter", logger |-> l, before |-> global_logger,
                   error |-> ""]
    /\ UNCHANGED <<log_raised, besidesLog>>

\* the body of the innermost block raises
RaiseInBody ==
    /\ with_stack # <<>>
    /\ log_raised = ""
    /\ log_raised' = "Exception"
    /\ UNCHANGED <<global_logger, old_logger, with_stack, last_op, besidesLog>>

\* lines 48-50, __exit__ of the innermost block, reached at the end of the
\* body or by an exception; it returns None, so an exception goes on.  Without
\* the attribute _old_logger line 49 raises AttributeError.
Exit ==
    /\ with_stack # <<>>
    /\ LET top == with_stack[Len(with_stack)]
           l == top.logger
       IN  /\ IF old_logger[l] = -1
              THEN /\ log_raised' = "AttributeError"
                   /\ UNCHANGED <<global_logger, old_logger>>
              ELSE /\ global_logger' = old_logger[l]
                   /\ old_logger' = [old_logger EXCEPT ![l] = -1]
                   /\ UNCHANGED log_raised
           /\ last_op' = [op |-> "exit", logger |-> l, before |-> top.before,
                          error |-> IF old_logger[l] = -1 THEN "AttributeError"
                                    ELSE ""]
    /\ with_stack' = SubSeq(with_stack, 1, Len(with_stack) - 1)
    /\ UNCHANGED besidesLog

\* outside all blocks the caller handles the exception
Catch ==
    /\ with_stack = <<>>
    /\ log_raised # ""
    /\ log_raised' = ""
    /\ UNCHANGED <<global_logger, old_logger, with_stack, last_op, besidesLog>>

NextLogger ==
    \/ \E l \in Loggers : Enter(l)
    \/ RaiseInBody
    \/ Exit
    \/ Catch

SpecLogger == InitLogger /\ [][NextLogger]_vars

\* ================================================================ claims
\* what the caller passed
Bright(img) == {x \in Indices(img.size) : img.pixels[x] # 0}
HasOneFeature(img) == Cardinality(Bright(img)) = 1
FeatureIndex(img) == CHOOSE x \in Bright(img) : TRUE
SameGridInputs ==
    /\ inputs.fixed.size = inputs.moving.size
    /\ inputs.fixed.spacing = inputs.moving.spacing
    /\ inputs.fixed.origin = inputs.moving.origin
    /\ inputs.fixed.direction = inputs.moving.direction
DefaultOptions ==
    inputs.transform.class = "None" /\ inputs.fraction = 0 /\ inputs.masked = <<>>
KnownShiftInputs ==
    /\ SameGridInputs
    /\ DefaultOptions
    /\ HasOneFeature(inputs.fixed)
    /\ HasOneFeature(inputs.moving)
Returned2 == transforms[result.ref].translation2
PeakChosen == pc \in {"translation", "compose", "done"}
\* the mean of region k is at most that of region l (means are sum/count)
NotLarger(k, l) == stats[k].sum * stats[l].count <= stats[l].sum * stats[k].count
MaxMeanLabels == {l \in DOMAIN stats : \A k \in DOMAIN stats : NotLarger(k, l)}

\* C1: when the list of labelled regions is empty (the regions were
\* labelled: no toolkit call failed before) the call ends with an explicit
\* "no peak found" error, not with an out-of-range index and not with a
\* transform.
C1_NoPeakFoundError ==
    (error # "RuntimeError"
        /\ pc \notin {"reconcile", "smooth_fixed", "smooth_moving", "correlate",
                       "smooth_xcorr", "label", "peak"}
        /\ labels = <<>>)
        => (pc = "error" /\ error = "NoPeakFound")

\* C2: images on one grid with one feature each, at physical points p_f and
\* p_m: the returned translation t satisfies p_f + t = p_m on every axis.
C2_FixedToMoving ==
    (pc = "done" /\ KnownShiftInputs)
        => \A i \in Axes(Returned2) :
              2 * NodePoint(inputs.fixed, FeatureIndex(inputs.fixed))[i] + Returned2[i]
                  = 2 * NodePoint(inputs.moving, FeatureIndex(inputs.moving))[i]
C2_Witness ==
    /\ pc = "done"
    /\ KnownShiftInputs
    /\ \A i \in 1..2 : FeatureIndex(inputs.fixed)[i] # FeatureIndex(inputs.moving)[i]
    /\ \A i \in 1..2 : Returned2[i] # 0

\* C3 as stated: the translation is spacing * (P - Q), P the index of the
\* feature in the fixed image and Q its index in the moving image.
C3_Original ==
    (pc = "done" /\ KnownShiftInputs)
        => \A i \in Axes(Returned2) :
              Returned2[i] = 2 * inputs.fixed.spacing[i]
                               * (FeatureIndex(inputs.fixed)[i]
                                    - FeatureIndex(inputs.moving)[i])
\* C3 amended: the translation is spacing * (Q - P) along the grid's axes
\* (times the direction of the axis): moving index minus fixed index.
C3_KnownShift ==
    (pc = "done" /\ KnownShiftInputs)
        => \A i \in Axes(Returned2) :
              Returned2[i] = 2 * inputs.fixed.direction[i] * inputs.fixed.spacing[i]
                               * (FeatureIndex(inputs.moving)[i]
                                    - FeatureIndex(inputs.fixed)[i])
C3_Witness ==
    /\ pc = "done"
    /\ KnownShiftInputs
    /\ inputs.fixed.spacing[2] = 2
    /\ FeatureIndex(inputs.moving)[2] - FeatureIndex(inputs.fixed)[2] = 1
    /\ FeatureIndex(inputs.moving)[1] - FeatureIndex(inputs.fixed)[1] = -2

\* C4: the moving image is an exact copy of the fixed image on the same
\* grid: the peak's continuous index is the centre index size/2 of the
\* correlation surface on every axis, and the translation is zero.
C4_ZeroDisplacement ==
    (PeakChosen /\ SameGridInputs /\ DefaultOptions
        /\ inputs.moving.pixels = inputs.fixed.pixels)
        => /\ \A i \in Axes(peak.idx2) : peak.idx2[i] = images[xcorr].size[i]
           /\ pc = "done" => \A i \in Axes(Returned2) : Returned2[i] = 0
C4_Witness ==
    /\ pc = "done"
    /\ SameGridInputs /\ DefaultOptions
    /\ inputs.moving.pixels = inputs.fixed.pixels
    /\ HasOneFeature(inputs.fixed)
    /\ inputs.fixed.size[1] % 2 # inputs.fixed.size[2] % 2

\* C5: with an initial transform of translation T0 and matrix A the returned
\* translation is T0 + A (centre point - peak point).
C5_Composition ==
    (pc = "done" /\ inputs.transform.class # "None")
        => LET t0 == inputs.transform.tx.translation2
               a == inputs.transform.tx.matrix
               sz == images[xcorr].size
               raw == [i \in Axes(sz) |->
                          (2 * images[xcorr].origin[i]
                             + images[xcorr].direction[i] * images[xcorr].spacing[i] * sz[i])
                          - peak.pt2[i]]
           IN  Returned2 = <<t0[1] + a[1][1] * raw[1] + a[1][2] * raw[2],
                             t0[2] + a[2][1] * raw[1] + a[2][2] * raw[2]>>
C5_Witness ==
    /\ pc = "done"
    /\ inputs.transform.class = "Euler2DTransform"
    /\ translation2[1] # 0 /\ translation2[2] # 0
    /\ Returned2 # translation2
    /\ Returned2 # inputs.transform.tx.translation2

\* C6: the caller's fixed and moving images are the same objects with the
\* same content at every point of the call, whether it succeeds or fails.
C6_InputsUntouched ==
    /\ images[1] = inputs.fixed
    /\ images[2] = inputs.moving
C6_Witness ==
    /\ pc = "done"
    /\ Len(images) = 7
    /\ images[moving].pixels # inputs.moving.pixels
    /\ images[fixed].pixelType # inputs.fixed.pixelType

\* C7: with an initial transform, the returned transform is another object
\* of the same class, and the caller's transform is as it was.
C7_TransformCopied ==
    /\ inputs.transform.class # "None" => transforms[1] = inputs.transform.tx
    /\ (pc = "done" /\ inputs.transform.class # "None")
          => /\ result.class = inputs.transform.class
             /\ result.ref # initial_transform.ref
             /\ transforms[result.ref].kind = inputs.transform.tx.kind
             /\ transforms[result.ref].matrix = inputs.transform.tx.matrix
C7_Witness ==
    /\ pc = "done"
    /\ inputs.transform.class = "AffineTransform"
    /\ Returned2 # transforms[initial_transform.ref].translation2

\* C8: the region used as the peak has the largest mean: no region's mean
\* is strictly larger.
C8_MaximumMean ==
    (PeakChosen /\ stats # <<>>)
        => \A l \in DOMAIN stats : NotLarger(l, peak.label)
C8_Witness ==
    /\ PeakChosen
    /\ Len(stats) >= 2
    /\ \E l \in DOMAIN stats : ~NotLarger(peak.label, l)
    /\ peak.label # Len(stats)

\* C9 as stated: of the regions that tie for the largest mean the first in
\* label order is the peak.
C9_Original ==
    (PeakChosen /\ stats # <<>>) => peak.label = SetMin(MaxMeanLabels)
\* C9 amended: of the regions that tie for the largest mean the last in
\* label order is the peak.
C9_LastOfTied ==
    (PeakChosen /\ stats # <<>>) => peak.label = SetMax(MaxMeanLabels)
C9_Witness ==
    /\ PeakChosen
    /\ Cardinality(MaxMeanLabels) >= 2
    /\ peak.label = SetMax(MaxMeanLabels)

\* C10: the moving image is resampled exactly when an initial transform is
\* given or its spacing, direction or origin differs from the fixed image's;
\* the moving image that enters the correlation is on the fixed image's grid.
C10_GridReconciled ==
    /\ pc = "smooth_fixed"
          => ((moving # 2) <=>
                 \/ inputs.transform.class # "None"
                 \/ inputs.moving.spacing # inputs.fixed.spacing
                 \/ inputs.moving.direction # inputs.fixed.direction
                 \/ inputs.moving.origin # inputs.fixed.origin)
    /\ pc \in {"smooth_fixed", "smooth_moving", "correlate"}
          => /\ images[moving].origin = images[fixed].origin
             /\ images[moving].spacing = images[fixed].spacing
             /\ images[moving].direction = images[fixed].direction
             /\ (moving # 2 /\ pc = "smooth_fixed")
                    => images[moving].size = images[fixed].size
C10_Witness ==
    /\ pc = "correlate"
    /\ inputs.transform.class = "None"
    /\ inputs.moving.origin # inputs.fixed.origin
    /\ images[moving].origin = images[fixed].origin

\* the caller's moving image on the grid of the fixed image
MovingOnFixedGrid ==
    IF /\ inputs.transform.class = "None"
       /\ inputs.moving.spacing = inputs.fixed.spacing
       /\ inputs.moving.origin = inputs.fixed.origin
       /\ inputs.moving.direction = inputs.fixed.direction
    THEN inputs.moving
    ELSE Resample(inputs.fixed,
                  IF inputs.transform.class = "None"
                  THEN MakeTransform("IdentityTransform",
                                     Identity(Len(inputs.fixed.size)),
                                     Zeros(Len(inputs.fixed.size)))
                  ELSE inputs.transform.tx,
                  inputs.moving)

\* 0 where the pixel of img has the value v, 1 elsewhere
OwnMask(img, v) ==
    [x \in Indices(img.size) |-> IF img.pixels[x] = v * img.denom THEN 0 ELSE 1]

\* C11: when masked_pixel_value is given, the masks handed to the masked
\* correlation are 0 exactly where the caller's fixed image, and the caller's
\* moving image on the fixed grid, have the value masked_pixel_value, and 1
\* elsewhere.
C11_MaskOfInputPixels ==
    fixed_mask # 0 =>
        /\ images[fixed_mask].pixels = OwnMask(inputs.fixed, masked_pixel_value[1])
        /\ images[moving_mask].pixels = OwnMask(MovingOnFixedGrid, masked_pixel_value[1])

\* physical point of the one feature of an image
FeaturePoint(img) == NodePoint(img, FeatureIndex(img))

\* one feature in each image, images of one size, default options, and the
\* moving feature lies at a physical point that is a node of the fixed grid,
\* so that the same content can also be given on the grid of the fixed image
SamePhysicalContentInputs ==
    /\ DefaultOptions
    /\ inputs.fixed.size = inputs.moving.size
    /\ HasOneFeature(inputs.fixed)
    /\ HasOneFeature(inputs.moving)
    /\ \E x \in Indices(inputs.fixed.size) :
          NodePoint(inputs.fixed, x) = FeaturePoint(inputs.moving)

\* C12: grid-mismatch invariance.  The returned translation is the physical
\* displacement of the feature centres whatever grid (spacing, origin) the
\* moving image is given on: on another grid than that of the fixed image
\* it is what the call returns for the same content on the fixed grid.
C12_GridMismatchInvariance ==
    (pc = "done" /\ SamePhysicalContentInputs)
        => \A i \in Axes(Returned2) :
              Returned2[i] = 2 * (FeaturePoint(inputs.moving)[i]
                                    - FeaturePoint(inputs.fixed)[i])
\* a call with the moving image on a grid of another spacing has returned a
\* translation that is not zero
C12_Witness ==
    /\ pc = "done"
    /\ SamePhysicalContentInputs
    /\ inputs.moving.spacing # inputs.fixed.spacing
    /\ FeatureIndex(inputs.moving) # FeatureIndex(inputs.fixed)
    /\ \E i \in 1..2 : Returned2[i] # 0

\* the stages in the order of the code; an ended call comes last
StageRank(p) ==
    CASE p = "reconcile" -> 1
      [] p = "smooth_fixed" -> 2
      [] p = "smooth_moving" -> 3
      [] p = "correlate" -> 4
      [] p = "smooth_xcorr" -> 5
      [] p = "label" -> 6
      [] p = "peak" -> 7
      [] p = "translation" -> 8
      [] p = "compose" -> 9
      [] OTHER -> 10

\* the transform objects the caller passed
CallerTransforms ==
    IF inputs.transform.class = "None" THEN <<>> ELSE <<inputs.transform.tx>>

\* C13: failure propagation.  Once a stage has failed the call has ended
\* with the error: no transform is returned and none was made or changed,
\* no step follows the failure (no later stage, no retry), and no stage is
\* entered twice while the call runs.
C13_FailurePropagation ==
    /\ [](error # "" => /\ pc = "error"
                        /\ result = NoResult
                        /\ transforms = CallerTransforms)
    /\ [][pc # "error" /\ error = "" /\ StageRank(pc') > StageRank(pc)]_vars
\* a toolkit call has failed after the correlation, and the peak extraction
\* has failed, each with intermediate images at hand
C13_Witness ==
    /\ pc = "error"
    /\ \/ error = "RuntimeError" /\ xcorr # 0 /\ labels = <<>>
       \/ error = "IndexError"
    /\ Len(images) > 2

\* how the call with the local names l has ended; heap holds its transforms
Outcome(l, heap) ==
    [error |-> l.error, class |-> l.result.class,
     translation2 |-> IF l.result.ref = 0 THEN <<>>
                      ELSE heap[l.result.ref].translation2]
SuspendedTransforms ==
    SubSeq(transforms, 1, caller_objects.transforms) \o suspended.transforms_own
\* how each call can end when it is run by itself
AloneOutcomes == [c \in TwoCallInputs |-> {Alone(c, fl) : fl \in BOOLEAN}]

\* C14: statelessness.  Of two calls whose stages are interleaved in any
\* way, on the same objects or on different ones, each ends as it ends when
\* it is run by itself on its own arguments.
C14_Statelessness ==
    suspended # <<>> =>
        /\ pc \in {"done", "error"}
              => Outcome(Locals, transforms) \in AloneOutcomes[inputs]
        /\ suspended.pc \in {"done", "error"}
              => Outcome(suspended, SuspendedTransforms)
                    \in AloneOutcomes[suspended.inputs]
\* two calls have both returned, the one that ended last composing with an
\* initial transform, and they have ended differently
C14_Witness ==
    /\ suspended # <<>>
    /\ pc = "done"
    /\ suspended.pc = "done"
    /\ initial_transform.class # "None"
    /\ Outcome(Locals, transforms) # Outcome(suspended, SuspendedTransforms)

\* ------------------------------------------------------- slice_by_slice
SbsDim == Len(sbs_input.image.size)
\* the slice of img at the index combination high of the axes from 2 on
SliceAt(img, high) ==
    [p \in {SubSeq(q, 1, 2) : q \in DOMAIN img.pixels} |-> img.pixels[p \o high]]
\* all index combinations of the axes from 2 on
HighCombinations == {SubSeq(q, 3, Len(q)) : q \in DOMAIN sbs_input.image.pixels}
\* the result of the k-th call has been pasted
Pasted(k) == k < sbs_high_idx \/ sbs_pc = "done"

C16_WholeImage ==
    SbsDim <= 2 =>
        /\ sbs_pc \in {"start", "done"}
        /\ sbs_pc = "start" => sbs_calls = <<>>
        /\ sbs_pc = "done" =>
              /\ Len(sbs_calls) = 1
              /\ sbs_calls[1].ref = 1
              /\ sbs_calls[1].image = sbs_input.image
              /\ sbs_calls[1].args = sbs_input.func.args
              /\ sbs_result = sbs_calls[1].returned_ref
              /\ sbs_images[sbs_result] = sbs_calls[1].returned
              /\ sbs_result # 1 => sbs_images = <<sbs_input.image, sbs_calls[1].returned>>
              /\ sbs_result = 1 => sbs_images = <<sbs_calls[1].returned>>
\* a 2-D image has gone through a func that returns a new image object
C16_Witness ==
    /\ sbs_pc = "done"
    /\ SbsDim = 2
    /\ sbs_result = 2
    /\ sbs_images[2] # sbs_images[1]

\* ------------------------------------------------ overlay_bounding_boxes
BoxCount == Len(standard_bounding_boxes)
\* box b with its lines of width 1 + 2 * half_line_width lies inside the image
InsideImage(b) ==
    /\ b[1] - obb_args.half_line_width >= 0
    /\ b[2] - obb_args.half_line_width >= 0
    /\ b[3] + obb_args.half_line_width <= ObbSize[1] - 1
    /\ b[4] + obb_args.half_line_width <= ObbSize[2] - 1
\* the pixels of the image on the lines of box b
Outline(b) ==
    LET h == obb_args.half_line_width
    IN  {p \in Indices(ObbSize) :
            /\ p[1] >= b[1] - h /\ p[1] <= b[3] + h
            /\ p[2] >= b[2] - h /\ p[2] <= b[4] + h
            /\ ~(/\ p[1] > b[1] + h /\ p[1] < b[3] - h
                 /\ p[2] > b[2] + h /\ p[2] < b[4] - h)}
\* the colour the caller gave for box i
GivenColor(i) ==
    IF obb_args.colors = <<>> THEN <<255, 0, 0>>
    ELSE SubSeq(obb_args.colors, 3 * i - 2, 3 * i)
EnoughColors == obb_args.colors = <<>> \/ Len(obb_args.colors) >= 3 * BoxCount
ReturnedPixels == obb_images[obb_result.image].pixels

\* C17: the second entry of the result is true if and only if one of the
\* rectangles, its line width included, reaches beyond the image on some
\* side, low or high.
C17_OutOfBoundsFlag ==
    obb_pc = "done" =>
        (obb_result.out_of_bounds
            <=> \E i \in 1..BoxCount : ~InsideImage(standard_bounding_boxes[i]))

\* C18 as stated: whatever colours are given, every box inside the image is
\* drawn, in list order: a pixel on the lines of such a box has the colour
\* given for it unless a later box covers it.
C18_Original ==
    obb_pc = "done" =>
        \A i \in 1..BoxCount : \A p \in Outline(standard_bounding_boxes[i]) :
            (/\ InsideImage(standard_bounding_boxes[i])
             /\ \A j \in (i + 1)..BoxCount :
                   /\ InsideImage(standard_bounding_boxes[j])
                   /\ p \notin Outline(standard_bounding_boxes[j]))
                => /\ obb_args.colors = <<>> \/ Len(obb_args.colors) >= 3 * i
                   /\ ReturnedPixels[p] = GivenColor(i)
\* C18 amended: with no colours given, or a colour for each box, every box
\* inside the image is drawn, whatever boxes out of bounds come before it,
\* and of the boxes inside the image the later one wins: a pixel on the
\* lines of such a box has its colour unless a later box covers it.
C18_InListOrder ==
    (obb_pc = "done" /\ EnoughColors) =>
        \A i \in 1..BoxCount : \A p \in Outline(standard_bounding_boxes[i]) :
            (/\ InsideImage(standard_bounding_boxes[i])
             /\ \A j \in (i + 1)..BoxCount :
                   /\ InsideImage(standard_bounding_boxes[j])
                   /\ p \notin Outline(standard_bounding_boxes[j]))
                => ReturnedPixels[p] = GivenColor(i)
\* two boxes inside the image that cross were drawn in two given colours: a
\* pixel on both has the second colour, and a pixel has the first
C18_Witness ==
    /\ obb_pc = "done"
    /\ BoxCount = 2
    /\ Len(obb_args.colors) = 6
    /\ InsideImage(standard_bounding_boxes[1])
    /\ InsideImage(standard_bounding_boxes[2])
    /\ \E p \in Outline(standard_bounding_boxes[1]) :
          /\ p \in Outline(standard_bounding_boxes[2])
          /\ ReturnedPixels[p] = GivenColor(2)
    /\ \E p \in Outline(standard_bounding_boxes[1]) : ReturnedPixels[p] = GivenColor(1)

\* the inputs the function does not take
InvalidInput ==
    \/ obb_args.image.pixelType \notin {"sitkUInt8", "sitkVectorUInt8"}
    \/ obb_args.image.channels \notin {1, 3}
    \/ obb_args.half_line_width < 0
    \/ obb_args.bounding_box_format
          \notin {"MINXY_MAXXY", "MINXY_WH", "CENT_WH", "CENT_HALFWH"}

\* C19: on an invalid input the call never gets to the drawing: it ends
\* with ValueError only, the caller's image is as it was, nothing is
\* returned and no image holds a line.
C19_RejectedBeforeDrawing ==
    InvalidInput =>
        /\ obb_pc \in {"check", "overlay", "line_width", "convert", "error"}
        /\ obb_pc = "error" => obb_error = "ValueError"
        /\ obb_error \in {"", "ValueError"}
        /\ obb_images[1] = obb_args.image
        /\ obb_result = <<>>
        /\ ~out_of_bounds
        /\ overlay_image # 0 =>
              \A p \in Indices(ObbSize) :
                 LET v == obb_args.image.pixels[p]
                 IN  obb_images[overlay_image].pixels[p]
                        = IF Len(v) = 1 THEN <<v[1], v[1], v[1]>> ELSE v
\* a call with an unknown bounding box format was rejected, after the
\* overlay image had been made
C19_Witness ==
    /\ obb_pc = "error"
    /\ obb_error = "ValueError"
    /\ obb_args.bounding_box_format = "XYXY"
    /\ overlay_image # 0
    /\ obb_args.bounding_boxes # <<>>

\* ---------------------------------------------------------------- resize
\* the spacing of axis j that makes the image fill the requested size
FillingSpacing(j) == FloatDiv(Extent(j), rsz_args.new_size[j])

\* C20: the grid of the image resize returns.  With fill the size is the
\* requested one on every axis; without fill and isotropic no axis is
\* larger than requested and one axis has the requested size; isotropic,
\* every spacing is the largest over the axes of old_size * old_spacing /
\* new_size, and otherwise each axis has its own such quotient.
C20_OutputGrid ==
    rsz_pc = "done" =>
        /\ rsz_args.fill => rsz_result.size = rsz_args.new_size
        /\ (~rsz_args.fill /\ rsz_args.isotropic) =>
              /\ \A i \in Dims : rsz_result.size[i] <= rsz_args.new_size[i]
              /\ \E i \in Dims : rsz_result.size[i] = rsz_args.new_size[i]
        /\ rsz_args.isotropic =>
              \A i \in Dims :
                 rsz_result.spacing[i]
                    = FloatMax([j \in Dims |-> FillingSpacing(j)])
        /\ ~rsz_args.isotropic =>
              \A i \in Dims : rsz_result.spacing[i] = FillingSpacing(i)

\* the physical point of continuous index cidx on axis i of the returned
\* image, its spacing taken as the real number the double stands for
OutputPoint(i, cidx) ==
    RAdd(rsz_result.origin[i],
         RMul(<<rsz_args.image.direction[i], 1>>,
              RMul(rsz_result.spacing[i].real, cidx)))
InputPoint(i, cidx) ==
    RAdd(rsz_args.image.origin[i],
         RMul(<<rsz_args.image.direction[i], 1>>,
              RMul(rsz_args.image.spacing[i], cidx)))
\* axis i of the returned image is as long as that of the input
NoPadding(i) ==
    RMul(<<rsz_result.size[i], 1>>, rsz_result.spacing[i].real) = Extent(i)

TimesDoubleAtLeast(n, x, a) ==
    BCmp(BMulSmall(BMulSmall(x.m, n, 0), a[2], 0), BShl(<<a[1]>>, x.s)) >= 0
\* the double x is its real number rounded: it differs from it by at most
\* 2^-53 of it
RoundingOf(x) ==
    LET mq == BShl(BMulSmall(x.m, x.real[2], 0), 8)
        p == BShl(<<x.real[1]>>, x.s + 8)
        slack == BShl(<<x.real[1]>>, x.s - 45)
    IN  /\ BCmp(mq, BAdd(p, slack, 0)) <= 0
        /\ BCmp(BAdd(mq, slack, 0), p) >= 0

\* C22 as stated: on every axis new_size * new_spacing of the returned image
\* is at least old_size * old_spacing.
C22_Original ==
    rsz_pc = "done" =>
        \A i \in Dims :
            TimesDoubleAtLeast(rsz_result.size[i], rsz_result.spacing[i], Extent(i))
\* C22 amended: the extent is kept up to the rounding of the spacing to a
\* double: new_size times the quotient the spacing is rounded from is at
\* least old_size * old_spacing, and the spacing is within 2^-53 of that
\* quotient.
C22_ExtentRetained ==
    rsz_pc = "done" =>
        \A i \in Dims :
            /\ RLeq(Extent(i),
                    RMul(<<rsz_result.size[i], 1>>, rsz_result.spacing[i].real))
            /\ RoundingOf(rsz_result.spacing[i])
\* an image was resized isotropic to a spacing that is a third of an
\* integer and no double: one axis is padded, the other is not, and on the
\* first the extent in doubles falls short of the input's
C22_Witness ==
    /\ rsz_pc = "done"
    /\ rsz_args.isotropic
    /\ \E i \in Dims : ~NoPadding(i)
    /\ \E i \in Dims : NoPadding(i)
    /\ rsz_result.spacing[1].real[2] = 3
    /\ ~TimesDoubleAtLeast(rsz_result.size[1], rsz_result.spacing[1], Extent(1))

\* the sigma the image was smoothed with on axis i, 0 when it was not
SigmaUsed(i) ==
    IF \E k \in 1..Len(rsz_smoothing) :
          rsz_smoothing[k].filter = "SmoothingRecursiveGaussian"
    THEN rsz_smoothing[1].sigma[i]
    ELSE IF \E k \in 1..Len(rsz_smoothing) : rsz_smoothing[k].direction = i - 1
    THEN (CHOOSE f \in {rsz_smoothing[k] : k \in 1..Len(rsz_smoothing)} :
             f.direction = i - 1).sigma
    ELSE Rat(0, 1)
HalfSpacingGain(i) ==
    RDiv(RSub(rsz_result.spacing[i].real, rsz_args.image.spacing[i]), Rat(2, 1))

IsoReturned == iso_images[iso_result]
OriginalExtent(i) ==
    RMul(<<iso_args.image.size[i], 1>>, iso_args.image.spacing[i])
\* the spacing asked for: the argument, or the smallest of the image
WantedSpacing ==
    IF iso_args.spacing # <<>> THEN iso_args.spacing
    ELSE IF RLeq(iso_args.image.spacing[1], iso_args.image.spacing[2])
    THEN iso_args.image.spacing[1]
    ELSE iso_args.image.spacing[2]

\* C24: for a call that keeps the axes of the image, the returned image has
\* on all axes the spacing argument, or the smallest original spacing when
\* none is given; its size is round(old_size * old_spacing / spacing) on every
\* axis, on the origin and axes of the input; the input image is as it was and
\* is not the returned object.
C24_MakeIsotropic ==
    (iso_pc = "done" /\ ~iso_args.standardize_axes) =>
        /\ \A i \in 1..2 :
              /\ IsoReturned.spacing[i] = WantedSpacing
              /\ IsoReturned.size[i]
                    = RoundHalfEven(RDiv(OriginalExtent(i), WantedSpacing))
        /\ IsoReturned.origin = iso_args.image.origin
        /\ IsoReturned.direction = iso_args.image.direction
        /\ iso_images[1] = iso_args.image
        /\ iso_result # 1

\* ---------------------------------------------------------------- from_sitk
\* sitk.GetArrayFromImage of the whole image on file
PixelArray == RegionArray(dsk_args.file, <<0, 0>>, dsk_args.file.size)
\* the part of the pixel array at the location of block b
PartAt(b) ==
    [shape |-> dsk_blocks[b].shape,
     data |-> [a \in IndexTuples(dsk_blocks[b].shape) |->
                  PixelArray.data[[i \in 1..Len(a) |->
                                      a[i] + dsk_blocks[b].location[i][1]]]]]
Holds(b, idx) ==
    \A i \in 1..Len(idx) :
        /\ dsk_blocks[b].location[i][1] <= idx[i]
        /\ idx[i] < dsk_blocks[b].location[i][2]

\* C25: for every valid chunks argument the call ends without an error and
\* the array has the shape of the image's pixel array, the reversed image
\* size (and the components); every index of it lies in exactly one block;
\* a computed block is the part of the pixel array at its location, read
\* with a reader of its own from the region whose index and size are the
\* starts and the shape of the block, axes reversed, and the reader of
\* from_sitk itself is used for no block.
C25_FromSitk ==
    /\ dsk_error = ""
    /\ dsk_pc \in {"map", "returned"} =>
          /\ img_shape = PixelArray.shape
          /\ \A idx \in IndexTuples(img_shape) :
                Cardinality({b \in 1..Len(dsk_blocks) : Holds(b, idx)}) = 1
    /\ dsk_pc = "returned" =>
          /\ dsk_readers[0] = [index |-> <<>>, size |-> <<>>]
          /\ \A b \in 1..Len(dsk_blocks) :
                dsk_computed[b] # <<>> =>
                   /\ dsk_computed[b] = PartAt(b)
                   /\ dsk_readers[b].index = <<dsk_blocks[b].location[2][1],
                                               dsk_blocks[b].location[1][1]>>
                   /\ dsk_readers[b].size = <<dsk_blocks[b].shape[2],
                                              dsk_blocks[b].shape[1]>>

C27_ContextManager ==
    /\ (last_op # <<>> /\ last_op.op = "enter") =>
          /\ global_logger = last_op.logger
          /\ old_logger[last_op.logger] = last_op.before
    /\ (last_op # <<>> /\ last_op.op = "exit") =>
          global_logger = last_op.before

\* C30: in properly nested with-blocks, a Logger entered again inside its own
\* block included, every exit succeeds, and after the exit of the outermost
\* block the global logger is the one from before its entry.
C30_NestedBlocks ==
    (last_op # <<>> /\ last_op.op = "exit") =>
        /\ last_op.error = ""
        /\ with_stack = <<>> => global_logger = last_op.before

\* --------------------------------------------------- fft.py, lines 93-115
\* the correlation surface once the peak has been selected
Surface == images[xcorr]

\* twice the physical point of the surface's grid at twice the continuous
\* index c2, written out per axis
SurfacePoint2(c2, i) ==
    2 * Surface.origin[i] + Surface.direction[i] * Surface.spacing[i] * c2

\* C28: with an initial_transform the reference point of TransformVector has
\* as many coordinates as the images have axes, and the composition does not
\* fail for 3-D images any more than for 2-D images.
C28_ReferencePoint ==
    (initial_transform.class # "None" /\ translation2 # <<>>
        /\ pc \in {"done", "error"})
        => /\ ReferencePointLength = Len(translation2)
           /\ error # "RuntimeError"

\* C29: the bounding box of the peak being [min0, max0, min1, max1, ...],
\* the peak's continuous index on axis i is (min_i + max_i)/2 + 0.5, the
\* centre's is size_i/2, both become physical points on the grid of the
\* correlation surface, and the raw translation is centre point minus peak
\* point on each axis (all numbers doubled).
C29_PeakAndCentre ==
    /\ peak # NoPeak =>
          \A i \in Axes(Surface.size) :
              /\ peak.idx2[i] = peak.bb[2 * i - 1] + peak.bb[2 * i] + 1
              /\ peak.pt2[i] = SurfacePoint2(peak.idx2[i], i)
    /\ translation2 # <<>> =>
          \A i \in Axes(Surface.size) :
              translation2[i] = SurfacePoint2(Surface.size[i], i) - peak.pt2[i]
C29_Witness ==
    /\ translation2 # <<>>
    /\ \E i \in Axes(Surface.size) : Surface.spacing[i] > 1 /\ translation2[i] # 0
    /\ \E i \in Axes(Surface.size) : Surface.origin[i] # 0

====
